---- MODULE Spec2Model ----
(***************************************************************************)
(* Model of the authoritative snake-arena server (src/unnamed/part_000).   *)
(*                                                                         *)
(* The server keeps one registry (players, food, id counters) that is      *)
(* mutated by the fixed-rate gameLoop, by the socket handlers and by       *)
(* setTimeout callbacks.  Node runs each of them to completion, so each is *)
(* one action here.  Math.random() is a nondeterministic choice: every     *)
(* routine that draws random numbers is an operator that returns the SET   *)
(* of worlds it can produce.                                               *)
(*                                                                         *)
(* Discretisation.  Positions are cells of an integer grid, angles are     *)
(* integer multiples of pi/PI (PI units make a half turn), and time is     *)
(* counted in tick intervals.  The lengths of the program (world 3000,     *)
(* radii 8 and 12, speed 2, ...) are replaced by grid-scale values; those  *)
(* values are the bounds of the model and are listed first.                *)
(***************************************************************************)
EXTENDS Integers, Sequences, FiniteSets, TLC

\* ------------------------------------------------------------------------
\* Bounds of the model (grid-scale stand-ins for the program's tunables)
\* ------------------------------------------------------------------------
WORLD_WIDTH == 4
WORLD_HEIGHT == WORLD_WIDTH
\* number of angle units in pi; a full turn is TwoPI units
PI == 2
TwoPI == 2 * PI
WORM_INITIAL_LENGTH == 2
WORM_SEGMENT_RADIUS == 1
WORM_SPEED == 1
WORM_TURN_SPEED == 1
\* WORM_SEGMENT_RADIUS * 0.8, rounded up to the grid
WORM_SEGMENT_DISTANCE == (WORM_SEGMENT_RADIUS * 8 + 9) \div 10
FOOD_RADIUS == 1
MAX_FOOD == 2
FOOD_DROP_INTERVAL == 2
\* FOOD_RADIUS * 4 at grid scale: the spawn margin of food and the minimum
\* distance between a new food item and an existing one
FoodClearance == 2
MIN_FOOD_SPAWN_DISTANCE_SQ == FoodClearance * FoodClearance
\* WORM_SEGMENT_RADIUS * 10 at grid scale
WormHeadClearance == 1
\* WORM_INITIAL_LENGTH * WORM_SEGMENT_DISTANCE + 100 at grid scale: the spawn
\* margin of worms, a quarter of the world's width
WormSpawnMargin == 1
SELF_COLLISION_START_INDEX == 3
\* durations in tick intervals
POWER_UP_DURATION_MS == 2
BOT_RESPAWN_DELAY_MS == (POWER_UP_DURATION_MS + 1) \div 2
BOT_COUNT == 1
BOT_TARGET_UPDATE_INTERVAL_TICKS == 2
BOT_AVOIDANCE_DISTANCE == 1
BOT_BOUNDARY_AVOID_MARGIN == 1
\* the number of leading segments of another worm a bot scans (20 in the code)
BotScanSegments == 2
\* sockets that ever connect, ticks that ever run, colours getRandomColor draws
MaxSockets == 1
MaxTime == 3
\* the messages of connected clients that the server acts on, all together
MaxMessages == 1
NumColors == 1

\* ------------------------------------------------------------------------
\* Program constants kept at their values
\* ------------------------------------------------------------------------
WORLD_GROUND_Z == 0
FOOD_SCORE == 5
FOOD_IMAGE_TYPES == 36
FOOD_TYPE_POWER == 15
FOOD_TYPE_ZOOM == 12
FOOD_TYPE_MAGNET == 7
MAGNET_RADIUS_MULTIPLIER == 6
MaxNameLength == 16

\* (WORM_SEGMENT_RADIUS + FOOD_RADIUS)^2
FOOD_COLLISION_THRESHOLD_SQUARED ==
    (WORM_SEGMENT_RADIUS + FOOD_RADIUS) * (WORM_SEGMENT_RADIUS + FOOD_RADIUS)

\* distSq < (WORM_SEGMENT_RADIUS * 1.2)^2, in hundredths
WithinSelfCollision(distSq) ==
    distSq * 100 < (WORM_SEGMENT_RADIUS * 12) * (WORM_SEGMENT_RADIUS * 12)

\* distSq < (WORM_SEGMENT_RADIUS * 1.5)^2, in hundredths
WithinOtherCollision(distSq) ==
    distSq * 100 < (WORM_SEGMENT_RADIUS * 15) * (WORM_SEGMENT_RADIUS * 15)

\* the food types the model draws, of Math.floor(Math.random() * 36) + 1:
\* one cosmetic type and the two reserved types the server acts on
FoodTypeSamples ==
    {t \in 1..FOOD_IMAGE_TYPES : t \in {1, FOOD_TYPE_MAGNET, FOOD_TYPE_POWER}}

specialFoodTypes == {FOOD_TYPE_POWER, FOOD_TYPE_ZOOM, FOOD_TYPE_MAGNET}

Colors == 1..NumColors

\* targetFoodId: null
Null == -1

\* ------------------------------------------------------------------------
\* Sequences and arithmetic
\* ------------------------------------------------------------------------
Abs(n) == IF n < 0 THEN -n ELSE n

Sign(n) == IF n > 0 THEN 1 ELSE IF n < 0 THEN -1 ELSE 0

Min(a, b) == IF a < b THEN a ELSE b

Max(a, b) == IF a > b THEN a ELSE b

RemoveAt(s, i) == SubSeq(s, 1, i - 1) \o SubSeq(s, i + 1, Len(s))

Range(s) == {s[i] : i \in 1..Len(s)}

\* the JavaScript remainder: the result has the sign of the dividend
JsMod(a, n) == IF a >= 0 THEN a % n ELSE -((-a) % n)

\* the direction of an angle on the grid: the signs of its cosine and sine
Cos(a) ==
    LET am == a % TwoPI
    IN  IF 4 * am < TwoPI \/ 4 * am > 3 * TwoPI THEN 1
        ELSE IF 4 * am = TwoPI \/ 4 * am = 3 * TwoPI THEN 0
        ELSE -1

Sin(a) ==
    LET am == a % TwoPI
    IN  IF am = 0 \/ am = PI THEN 0
        ELSE IF am < PI THEN 1
        ELSE -1

\* Math.atan2 in angle units, in -PI..PI: the quadrant is exact, the angle
\* inside the quadrant is interpolated on |dy| / (|dx| + |dy|)
Atan2(dy, dx) ==
    LET s == Abs(dx) + Abs(dy)
        q == IF s = 0 THEN 0 ELSE (2 * PI * Abs(dy) + 2 * s) \div (4 * s)
    IN  IF s = 0 THEN 0
        ELSE IF dx >= 0 /\ dy >= 0 THEN q
        ELSE IF dx < 0 /\ dy >= 0 THEN PI - q
        ELSE IF dx < 0 THEN q - PI
        ELSE -q

DistSq(a, b) == (a.x - b.x) * (a.x - b.x) + (a.y - b.y) * (a.y - b.y)

\* ------------------------------------------------------------------------
\* Ids and names
\* ------------------------------------------------------------------------
BotId(n) == <<"bot", n>>

SocketId(n) == <<"socket", n>>

Digit(n) == <<"0", "1", "2", "3", "4", "5", "6", "7", "8", "9">>[(n % 10) + 1]

\* BOT_NAME_PREFIX, a blank and the last three characters of "bot_<n>"
BotName(n) ==
    IF n < 10 THEN <<"A", "I", "_", "B", "o", "t", " ", "t", "_", Digit(n)>>
    ELSE <<"A", "I", "_", "B", "o", "t", " ", "_", Digit(n \div 10), Digit(n)>>

\* "Worm_" and the first four characters of the socket id
SocketName(n) == <<"W", "o", "r", "m", "_", "s", "o", "c", Digit(n)>>

\* ------------------------------------------------------------------------
\* The registry.  A world w is a record
\*   players            the entries of `players`, in insertion order
\*   food               the food list
\*   eatenFoodThisTick  the eaten-food list
\*   nextFoodId, nextBotId
\*   sockets            the ids of io.sockets.sockets
\*   timers             the pending setTimeout callbacks, in scheduling order
\*   sent               what was emitted to single sockets since the latest
\*                      tick began
\*   log                the deaths logged since the latest tick began
\*   broadcast          the gameState messages emitted to all sockets since
\*                      the latest tick began
\*   rnd                what Math.random() has yielded in the running handler
\*   running            the Node process is up
\* ------------------------------------------------------------------------
\* Math.random().  A draw is a choice among `values`.  Within one run of a
\* handler the draws of one kind yield one value (the later draws of a kind
\* repeat the first, when that value is still among the values possible),
\* which bounds the branching of a run by the kinds of draws it makes.
\* Draw gives the set of [w, v]: the value drawn and the world that
\* remembers it.
Draw(w, kind, values) ==
    IF kind \in DOMAIN w.rnd /\ w.rnd[kind] \in values
    THEN {[w |-> w, v |-> w.rnd[kind]]}
    ELSE {[w |-> [w EXCEPT !.rnd = (kind :> v) @@ [k \in DOMAIN @ \ {kind} |-> @[k]]],
           v |-> v] : v \in values}

IndexOf(w, pId) ==
    IF \E i \in 1..Len(w.players) : w.players[i].id = pId
    THEN CHOOSE i \in 1..Len(w.players) : w.players[i].id = pId
    ELSE 0

HasPlayer(w, pId) == IndexOf(w, pId) # 0

Player(w, pId) == w.players[IndexOf(w, pId)]

SetWorm(w, pId, worm) ==
    [w EXCEPT !.players[IndexOf(w, pId)].worm = worm]

\* humans have botState: undefined
NoBotState == [targetFoodId |-> Null, ticksUntilTargetUpdate |-> -1]

FreshBotState == [targetFoodId |-> Null, ticksUntilTargetUpdate |-> 0]

PlaceholderWorm(color) ==
    [segments |-> <<>>, angle |-> 0, targetAngle |-> 0, color |-> color,
     score |-> 0, isAlive |-> FALSE, hasSpeedBoost |-> FALSE,
     speedBoostEndTime |-> 0, isMagnetActive |-> FALSE,
     botState |-> NoBotState]

getRandomColor(w) == Draw(w, "color", Colors)

\* Math.random() * (WORLD_WIDTH - 2 * margin) + margin for both coordinates,
\* with the least and with the greatest value of Math.random(): two opposite
\* corners of the spawn area
getRandomSpawnPositionXY(margin) ==
    {[x |-> margin + r * (WORLD_WIDTH - 2 * margin),
      y |-> margin + r * (WORLD_HEIGHT - 2 * margin)] : r \in {0, 1}}

isSpawnPositionClear(w, x, y) ==
    /\ \A i \in 1..Len(w.food) :
          ~(DistSq([x |-> x, y |-> y], w.food[i]) < MIN_FOOD_SPAWN_DISTANCE_SQ)
    /\ \A i \in 1..Len(w.players) :
          LET worm == w.players[i].worm
          IN  (worm.isAlive /\ Len(worm.segments) > 0) =>
                 ~(DistSq([x |-> x, y |-> y], worm.segments[1])
                      < WormHeadClearance * WormHeadClearance)

\* one iteration of spawnFood's loop: the first clear position of the
\* attempts, or the fallback position when every attempt was not clear
SpawnFoodPositions(w) ==
    LET tried == getRandomSpawnPositionXY(FoodClearance)
        clear == {p \in tried : isSpawnPositionClear(w, p.x, p.y)}
    IN  clear \cup
        (IF clear # tried
         THEN getRandomSpawnPositionXY((FoodClearance + 1) \div 2)
         ELSE {})

NewFood(id, pos, color, type) ==
    [id |-> id, x |-> pos.x, y |-> pos.y, z |-> WORLD_GROUND_Z,
     color |-> color, radius |-> FOOD_RADIUS, type |-> type]

\* SpawnOneFood without nextFoodId++
SpawnOneFoodSameId(w) ==
    UNION {UNION {{[c.w EXCEPT
                      !.food = Append(@, NewFood(w.nextFoodId, pos.v, c.v, type.v))] :
                    c \in getRandomColor(type.w)} :
                  type \in Draw(pos.w, "foodType", FoodTypeSamples)} :
           pos \in Draw(w, "spawnPos", SpawnFoodPositions(w))}

\* SpawnOneFood with a food type outside 1..FOOD_IMAGE_TYPES
SpawnOneFoodUntyped(w) ==
    UNION {UNION {{[c.w EXCEPT
                      !.food = Append(@, NewFood(w.nextFoodId, pos.v, c.v, type.v - 1)),
                      !.nextFoodId = @ + 1] :
                    c \in getRandomColor(type.w)} :
                  type \in Draw(pos.w, "foodType", FoodTypeSamples)} :
           pos \in Draw(w, "spawnPos", SpawnFoodPositions(w))}

SpawnOneFood(w) ==
    UNION {UNION {{[c.w EXCEPT
                      !.food = Append(@, NewFood(w.nextFoodId, pos.v, c.v, type.v)),
                      !.nextFoodId = @ + 1] :
                    c \in getRandomColor(type.w)} :
                  type \in Draw(pos.w, "foodType", FoodTypeSamples)} :
           pos \in Draw(w, "spawnPos", SpawnFoodPositions(w))}

\* SpawnFoodFrom without the test of food.length >= MAX_FOOD
RECURSIVE SpawnFoodFromUncapped(_, _, _)
SpawnFoodFromUncapped(w, i, count) ==
    IF i >= count THEN {w}
    ELSE UNION {SpawnFoodFromUncapped(w2, i + 1, count) : w2 \in SpawnOneFood(w)}

\* SpawnFoodFrom that spawns the items of the startup only
RECURSIVE SpawnFoodFromStartupOnly(_, _, _)
SpawnFoodFromStartupOnly(w, i, count) ==
    IF i >= count \/ Len(w.food) >= MAX_FOOD \/ w.nextFoodId >= (MAX_FOOD + 1) \div 2
    THEN {w}
    ELSE UNION {SpawnFoodFromStartupOnly(w2, i + 1, count) : w2 \in SpawnOneFood(w)}

RECURSIVE SpawnFoodFrom(_, _, _)
SpawnFoodFrom(w, i, count) ==
    IF i >= count \/ Len(w.food) >= MAX_FOOD THEN {w}
    ELSE UNION {SpawnFoodFrom(w2, i + 1, count) : w2 \in SpawnOneFood(w)}

spawnFood(w, count) == SpawnFoodFrom(w, 0, count)

createInitialWormSegments(startX, startY, length, angle) ==
    [i \in 1..length |->
        [x |-> startX - Cos(angle) * (i - 1) * WORM_SEGMENT_DISTANCE,
         y |-> startY - Sin(angle) * (i - 1) * WORM_SEGMENT_DISTANCE,
         z |-> WORLD_GROUND_Z]]

\* the spawn position resetPlayer settles on: a position whose whole worm
\* area was clear for the angle tried, or any position when an attempt failed
ResetSpawnPositions(w) ==
    LET spawnMargin == WormSpawnMargin
        tried == getRandomSpawnPositionXY(spawnMargin)
        areaClear(p, a) ==
            LET tempSegments ==
                    createInitialWormSegments(p.x, p.y, WORM_INITIAL_LENGTH, a)
            IN  \A k \in 1..Len(tempSegments) :
                    isSpawnPositionClear(w, tempSegments[k].x, tempSegments[k].y)
    IN  {p \in tried : \E a \in 0..(TwoPI - 1) : areaClear(p, a)}
        \cup
        (IF \E p \in tried : \E a \in 0..(TwoPI - 1) : ~areaClear(p, a)
         THEN tried ELSE {})

\* the start angle the model draws, of Math.random() * Math.PI * 2: the one
\* of the least value of Math.random()
StartAngleSamples == {a \in 0..(TwoPI - 1) : a = 0}

\* NewWorm that starts with the score of one food item
NewWormScored(isBot, spawnPos, startAngle, newColor) ==
    [segments |-> createInitialWormSegments(
                      spawnPos.x, spawnPos.y, WORM_INITIAL_LENGTH, startAngle),
     angle |-> startAngle,
     targetAngle |-> startAngle,
     color |-> newColor,
     score |-> FOOD_SCORE,
     isAlive |-> TRUE,
     hasSpeedBoost |-> FALSE,
     speedBoostEndTime |-> 0,
     isMagnetActive |-> FALSE,
     botState |-> IF isBot THEN FreshBotState ELSE NoBotState]

NewWorm(isBot, spawnPos, startAngle, newColor) ==
    [segments |-> createInitialWormSegments(
                      spawnPos.x, spawnPos.y, WORM_INITIAL_LENGTH, startAngle),
     angle |-> startAngle,
     targetAngle |-> startAngle,
     color |-> newColor,
     score |-> 0,
     isAlive |-> TRUE,
     hasSpeedBoost |-> FALSE,
     speedBoostEndTime |-> 0,
     isMagnetActive |-> FALSE,
     botState |-> IF isBot THEN FreshBotState ELSE NoBotState]

resetPlayer(w, pId) ==
    IF ~HasPlayer(w, pId) THEN {w}
    ELSE UNION {UNION {{SetWorm(newColor.w, pId,
                           NewWorm(Player(w, pId).isBot, spawnPos.v,
                                   startAngle.v, newColor.v)) :
                          newColor \in getRandomColor(startAngle.w)} :
                       startAngle \in Draw(spawnPos.w, "startAngle", StartAngleSamples)} :
                spawnPos \in Draw(w, "wormPos", ResetSpawnPositions(w))}

\* addBot without the increment of nextBotId
addBotSameId(w) ==
    LET botId == BotId(w.nextBotId)
        entry(color) ==
            [id |-> botId, name |-> BotName(w.nextBotId), isBot |-> TRUE,
             worm |-> [PlaceholderWorm(color) EXCEPT !.botState = FreshBotState]]
    IN  UNION {resetPlayer([c.w EXCEPT !.players = Append(@, entry(c.v))], botId) :
                 c \in getRandomColor(w)}

addBot(w) ==
    LET botId == BotId(w.nextBotId)
        entry(color) ==
            [id |-> botId, name |-> BotName(w.nextBotId), isBot |-> TRUE,
             worm |-> [PlaceholderWorm(color) EXCEPT !.botState = FreshBotState]]
    IN  UNION {resetPlayer([c.w EXCEPT !.players = Append(@, entry(c.v)),
                                       !.nextBotId = @ + 1], botId) :
                 c \in getRandomColor(w)}

removeBot(w, botId) ==
    IF HasPlayer(w, botId) /\ Player(w, botId).isBot
    THEN [w EXCEPT !.players = RemoveAt(@, IndexOf(w, botId))]
    ELSE w

\* ------------------------------------------------------------------------
\* killPlayer
\* ------------------------------------------------------------------------
\* the food a dying worm's segment leaves behind
DroppedFood(id, seg, worm, foodType) ==
    [id |-> id, x |-> seg.x, y |-> seg.y, z |-> seg.z, color |-> worm.color,
     radius |-> FOOD_RADIUS, type |-> foodType]

\* DropFoodFrom without the test of food.length < MAX_FOOD
RECURSIVE DropFoodFromUncapped(_, _, _)
DropFoodFromUncapped(w, worm, k) ==
    IF k > Len(worm.segments) THEN {w}
    ELSE LET after ==
                 IF (k - 1) % FOOD_DROP_INTERVAL = 0
                 THEN UNION {IF chance.v
                             THEN {[foodType.w EXCEPT
                                      !.food = Append(@,
                                          DroppedFood(chance.w.nextFoodId,
                                              worm.segments[k], worm, foodType.v)),
                                      !.nextFoodId = @ + 1] :
                                    foodType \in Draw(chance.w, "dropType",
                                                      FoodTypeSamples \ specialFoodTypes)}
                             ELSE {chance.w} :
                               chance \in Draw(w, "dropChance", BOOLEAN)}
                 ELSE {w}
         IN  UNION {DropFoodFromUncapped(w2, worm, k + 1) : w2 \in after}

\* DropFoodFrom without the test of index % FOOD_DROP_INTERVAL
RECURSIVE DropFoodFromEverySegment(_, _, _)
DropFoodFromEverySegment(w, worm, k) ==
    IF k > Len(worm.segments) THEN {w}
    ELSE LET seg == worm.segments[k]
             dropped(w1) ==
                 IF Len(w1.food) < MAX_FOOD
                 THEN {[foodType.w EXCEPT
                          !.food = Append(@,
                              DroppedFood(w1.nextFoodId, seg, worm, foodType.v)),
                          !.nextFoodId = @ + 1] :
                        foodType \in Draw(w1, "dropType",
                                          FoodTypeSamples \ specialFoodTypes)}
                 ELSE {w1}
             after ==
                 UNION {IF chance.v THEN dropped(chance.w) ELSE {chance.w} :
                          chance \in Draw(w, "dropChance", BOOLEAN)}
         IN  UNION {DropFoodFromEverySegment(w2, worm, k + 1) : w2 \in after}

\* the forEach over the dying worm's segments, from the k-th on: a segment
\* whose index is a multiple of FOOD_DROP_INTERVAL drops food with
\* FOOD_DROP_CHANCE, while the list is below MAX_FOOD
RECURSIVE DropFoodFrom(_, _, _)
DropFoodFrom(w, worm, k) ==
    IF k > Len(worm.segments) THEN {w}
    ELSE LET seg == worm.segments[k]
             dropped(w1) ==
                 IF Len(w1.food) < MAX_FOOD
                 THEN {[foodType.w EXCEPT
                          !.food = Append(@,
                              DroppedFood(w1.nextFoodId, seg, worm, foodType.v)),
                          !.nextFoodId = @ + 1] :
                        foodType \in Draw(w1, "dropType",
                                          FoodTypeSamples \ specialFoodTypes)}
                 ELSE {w1}
             after ==
                 IF (k - 1) % FOOD_DROP_INTERVAL = 0
                 THEN UNION {IF chance.v THEN dropped(chance.w) ELSE {chance.w} :
                               chance \in Draw(w, "dropChance", BOOLEAN)}
                 ELSE {w}
         IN  UNION {DropFoodFrom(w2, worm, k + 1) : w2 \in after}

\* the body of killPlayer, for a player that exists
KillExisting(w, pId, reason, t) ==
    LET player == Player(w, pId)
        w1 == [SetWorm(w, pId, [player.worm EXCEPT !.isAlive = FALSE])
                  EXCEPT !.log = Append(@, [id |-> pId, reason |-> reason])]
        notify(w2) ==
            IF ~player.isBot
            THEN IF pId \in w2.sockets
                 THEN [w2 EXCEPT !.sent = Append(@,
                          [to |-> pId, event |-> "gameOver",
                           score |-> Player(w2, pId).worm.score])]
                 ELSE w2
            ELSE [w2 EXCEPT !.timers = Append(@,
                     [kind |-> "botRespawn", pId |-> pId,
                      due |-> t + BOT_RESPAWN_DELAY_MS])]
    IN  {notify(w2) : w2 \in DropFoodFrom(w1, player.worm, 1)}

\* killPlayer without the test of isAlive
killPlayerOfDead(w, pId, reason, t) ==
    IF ~HasPlayer(w, pId) THEN {w} ELSE KillExisting(w, pId, reason, t)

killPlayer(w, pId, reason, t) ==
    IF ~(HasPlayer(w, pId) /\ Player(w, pId).worm.isAlive) THEN {w}
    ELSE KillExisting(w, pId, reason, t)

\* ------------------------------------------------------------------------
\* updateWorm
\* ------------------------------------------------------------------------
RECURSIVE NormalizeDiff(_)
NormalizeDiff(angleDiff) ==
    IF angleDiff <= -PI THEN NormalizeDiff(angleDiff + TwoPI)
    ELSE IF angleDiff > PI THEN NormalizeDiff(angleDiff - TwoPI)
    ELSE angleDiff

\* WORM_SPEED * SPEED_BOOST_FACTOR (1.6), rounded up to the grid
BoostedSpeed == (WORM_SPEED * 16 + 9) \div 10

\* TurnedAngle without the clamp to WORM_TURN_SPEED
TurnedAngleUnclamped(currentAngle, targetAngle) == targetAngle

TurnedAngle(currentAngle, targetAngle) ==
    LET angleDiff == NormalizeDiff(targetAngle - currentAngle)
    IN  IF Abs(angleDiff) > WORM_TURN_SPEED
        THEN currentAngle + Sign(angleDiff) * WORM_TURN_SPEED
        ELSE targetAngle

NormalizeAngle(angle) == JsMod(angle + TwoPI, TwoPI)

updateWorm(worm, t) ==
    IF ~worm.isAlive \/ Len(worm.segments) = 0 THEN worm
    ELSE LET head == worm.segments[1]
             angle == NormalizeAngle(TurnedAngle(worm.angle, worm.targetAngle))
             currentSpeed ==
                 IF worm.hasSpeedBoost /\ t < worm.speedBoostEndTime
                 THEN BoostedSpeed ELSE WORM_SPEED
             newHead == [x |-> head.x + Cos(angle) * currentSpeed,
                         y |-> head.y + Sin(angle) * currentSpeed,
                         z |-> head.z]
         IN  [worm EXCEPT !.angle = angle,
                          !.segments = <<newHead>> \o @]

\* ------------------------------------------------------------------------
\* updateBotAI
\* ------------------------------------------------------------------------
\* the first player, in registry order from the i-th on, with one of its
\* leading segments near the look-ahead point (within WORM_SEGMENT_RADIUS * 4
\* in the code, * 2 at grid scale): <<that segment>>, or <<>>
\* FirstThreat without the test of otherPlayer.worm.isAlive
RECURSIVE FirstThreatDeadToo(_, _, _, _)
FirstThreatDeadToo(w, botId, lookAhead, i) ==
    IF i > Len(w.players) THEN <<>>
    ELSE LET otherPlayer == w.players[i]
             n == Min(Len(otherPlayer.worm.segments), BotScanSegments)
             near == {k \in 1..n :
                        DistSq(lookAhead, otherPlayer.worm.segments[k])
                           < (WORM_SEGMENT_RADIUS * 2) * (WORM_SEGMENT_RADIUS * 2)}
         IN  IF otherPlayer.id = botId \/ near = {}
             THEN FirstThreatDeadToo(w, botId, lookAhead, i + 1)
             ELSE <<otherPlayer.worm.segments[
                       CHOOSE k \in near : \A k2 \in near : k <= k2]>>

\* FirstThreat that finds no threat
FirstThreatNone(w, botId, lookAhead, i) == <<>>

RECURSIVE FirstThreat(_, _, _, _)
FirstThreat(w, botId, lookAhead, i) ==
    IF i > Len(w.players) THEN <<>>
    ELSE LET otherPlayer == w.players[i]
             n == Min(Len(otherPlayer.worm.segments), BotScanSegments)
             near == {k \in 1..n :
                        DistSq(lookAhead, otherPlayer.worm.segments[k])
                           < (WORM_SEGMENT_RADIUS * 2) * (WORM_SEGMENT_RADIUS * 2)}
         IN  IF otherPlayer.id = botId \/ ~otherPlayer.worm.isAlive \/ near = {}
             THEN FirstThreat(w, botId, lookAhead, i + 1)
             ELSE <<otherPlayer.worm.segments[
                       CHOOSE k \in near : \A k2 \in near : k <= k2]>>

FindFood(w, id) == {i \in 1..Len(w.food) : w.food[i].id = id}

\* the first food item, in list order, at the least squared distance
ClosestFood(w, head) ==
    IF Len(w.food) = 0 THEN Null
    ELSE LET d(i) == DistSq(head, w.food[i])
             best == CHOOSE i \in 1..Len(w.food) :
                        /\ \A j \in 1..Len(w.food) : d(i) <= d(j)
                        /\ \A j \in 1..(i - 1) : d(j) > d(i)
         IN  w.food[best].id

updateBotAI(w, botId) ==
    LET botWorm == Player(w, botId).worm
    IN
    IF ~botWorm.isAlive \/ Len(botWorm.segments) = 0 THEN {w}
    ELSE
    LET head == botWorm.segments[1]
        lookAhead == [x |-> head.x + Cos(botWorm.angle) * BOT_AVOIDANCE_DISTANCE,
                      y |-> head.y + Sin(botWorm.angle) * BOT_AVOIDANCE_DISTANCE]
        nearBoundary ==
            \/ lookAhead.x < BOT_BOUNDARY_AVOID_MARGIN
            \/ lookAhead.x > WORLD_WIDTH - BOT_BOUNDARY_AVOID_MARGIN
            \/ lookAhead.y < BOT_BOUNDARY_AVOID_MARGIN
            \/ lookAhead.y > WORLD_HEIGHT - BOT_BOUNDARY_AVOID_MARGIN
        threat == IF nearBoundary THEN <<>> ELSE FirstThreat(w, botId, lookAhead, 1)
        \* the avoidance angle the update settles on, as [w, v]; {} when
        \* nothing is avoided
        avoidAngles ==
            IF nearBoundary
            THEN {[w |-> w,
                   v |-> Atan2(WORLD_HEIGHT - 2 * head.y, WORLD_WIDTH - 2 * head.x)]}
            ELSE IF threat # <<>>
            THEN {[w |-> side.w,
                   v |-> Atan2(threat[1].y - head.y, threat[1].x - head.x)
                            + (PI \div 2) * side.v] :
                     side \in Draw(w, "avoidSide", {1, -1})}
            ELSE {}
        write(w1, worm, targetAngle) ==
            SetWorm(w1, botId, [worm EXCEPT !.targetAngle = NormalizeAngle(targetAngle)])
        avoiding ==
            {write(a.w, [botWorm EXCEPT
                       !.botState.targetFoodId = Null,
                       !.botState.ticksUntilTargetUpdate =
                           BOT_TARGET_UPDATE_INTERVAL_TICKS], a.v) : a \in avoidAngles}
        ticks == botWorm.botState.ticksUntilTargetUpdate - 1
        rescan == ticks <= 0 \/ FindFood(w, botWorm.botState.targetFoodId) = {}
        targetFoodId == IF rescan THEN ClosestFood(w, head)
                        ELSE botWorm.botState.targetFoodId
        ticks2 == IF rescan THEN BOT_TARGET_UPDATE_INTERVAL_TICKS ELSE ticks
        seeking ==
            IF targetFoodId # Null
            THEN IF FindFood(w, targetFoodId) # {}
                 THEN LET targetFood ==
                              w.food[CHOOSE i \in FindFood(w, targetFoodId) : TRUE]
                      IN  {write(w, [botWorm EXCEPT
                                     !.botState.targetFoodId = targetFoodId,
                                     !.botState.ticksUntilTargetUpdate = ticks2],
                                 Atan2(targetFood.y - head.y, targetFood.x - head.x))}
                 ELSE {write(w, [botWorm EXCEPT
                                 !.botState.targetFoodId = Null,
                                 !.botState.ticksUntilTargetUpdate = 0],
                             botWorm.angle)}
            ELSE \* no food: wander, occasionally with a small random turn
                 {write(turn.w, [botWorm EXCEPT
                            !.botState.targetFoodId = Null,
                            !.botState.ticksUntilTargetUpdate = ticks2],
                        botWorm.angle + turn.v) :
                     turn \in Draw(w, "wander", (-(PI \div 16))..(PI \div 16))}
    IN  IF avoidAngles # {} THEN avoiding ELSE seeking

\* ------------------------------------------------------------------------
\* checkCollisions
\* ------------------------------------------------------------------------
effectiveCollisionThresholdSq(worm) ==
    LET effectiveCollisionRadius ==
            IF worm.isMagnetActive
            THEN WORM_SEGMENT_RADIUS + FOOD_RADIUS * MAGNET_RADIUS_MULTIPLIER
            ELSE WORM_SEGMENT_RADIUS + FOOD_RADIUS
    IN  effectiveCollisionRadius * effectiveCollisionRadius

\* AfterEating without the clearing of the bot's food target
AfterEatingKeepingTarget(player, eatenFoodItem, t) ==
    LET scored == [player.worm EXCEPT !.score = @ + FOOD_SCORE]
    IN  IF eatenFoodItem.type = FOOD_TYPE_POWER
        THEN [scored EXCEPT !.hasSpeedBoost = TRUE,
                            !.speedBoostEndTime = t + POWER_UP_DURATION_MS]
        ELSE IF eatenFoodItem.type = FOOD_TYPE_MAGNET
        THEN [scored EXCEPT !.isMagnetActive = TRUE]
        ELSE scored

\* the worm after it has eaten the item: score, power-up state, bot target
AfterEating(player, eatenFoodItem, t) ==
    LET worm == player.worm
        scored == [worm EXCEPT !.score = @ + FOOD_SCORE]
        powered ==
            IF eatenFoodItem.type = FOOD_TYPE_POWER
            THEN [scored EXCEPT !.hasSpeedBoost = TRUE,
                                !.speedBoostEndTime = t + POWER_UP_DURATION_MS]
            ELSE IF eatenFoodItem.type = FOOD_TYPE_MAGNET
            THEN [scored EXCEPT !.isMagnetActive = TRUE]
            ELSE scored
    IN  IF player.isBot /\ worm.botState.targetFoodId = eatenFoodItem.id
        THEN [powered EXCEPT !.botState.targetFoodId = Null,
                             !.botState.ticksUntilTargetUpdate = 0]
        ELSE powered

\* EatFood without spawnFood(1)
EatFoodUnreplaced(w, pId, j, t) ==
    LET eatenFoodItem == w.food[j]
        w1 == [w EXCEPT
                 !.food = RemoveAt(@, j),
                 !.eatenFoodThisTick = Append(@,
                     [id |-> eatenFoodItem.id, eaterId |-> pId,
                      type |-> eatenFoodItem.type])]
        fed == SetWorm(w1, pId, AfterEating(Player(w1, pId), eatenFoodItem, t))
    IN  {IF eatenFoodItem.type = FOOD_TYPE_MAGNET
         THEN [fed EXCEPT !.timers = Append(@,
                  [kind |-> "magnetExpiry", pId |-> pId,
                   due |-> t + POWER_UP_DURATION_MS])]
         ELSE fed}

\* the body of the food loop when food[j] is within reach of the head
EatFood(w, pId, j, t) ==
    LET eatenFoodItem == w.food[j]
        w1 == [w EXCEPT
                 !.food = RemoveAt(@, j),
                 !.eatenFoodThisTick = Append(@,
                     [id |-> eatenFoodItem.id, eaterId |-> pId,
                      type |-> eatenFoodItem.type])]
        activate(w3) ==
            LET fed == SetWorm(w3, pId,
                           AfterEating(Player(w1, pId), eatenFoodItem, t))
            IN  IF eatenFoodItem.type = FOOD_TYPE_MAGNET
                THEN [fed EXCEPT !.timers = Append(@,
                         [kind |-> "magnetExpiry", pId |-> pId,
                          due |-> t + POWER_UP_DURATION_MS])]
                ELSE fed
    IN  {activate(w3) : w3 \in spawnFood(w1, 1)}

\* the backward scan of the food list for one worm, from index j down:
\* the set of [w, ate] it can end in
\* FoodScan that goes on after an item was eaten, magnet or not
RECURSIVE FoodScanOn(_, _, _, _, _, _)
FoodScanOn(w, pId, head, j, ate, t) ==
    IF j < 1 THEN {[w |-> w, ate |-> ate]}
    ELSE IF DistSq(head, w.food[j]) < effectiveCollisionThresholdSq(Player(w, pId).worm)
    THEN UNION {FoodScanOn(w2, pId, head, j - 1, TRUE, t) :
                   w2 \in EatFood(w, pId, j, t)}
    ELSE FoodScanOn(w, pId, head, j - 1, ate, t)

RECURSIVE FoodScan(_, _, _, _, _, _)
FoodScan(w, pId, head, j, ate, t) ==
    IF j < 1 THEN {[w |-> w, ate |-> ate]}
    ELSE IF DistSq(head, w.food[j]) < effectiveCollisionThresholdSq(Player(w, pId).worm)
    THEN UNION {IF ~Player(w2, pId).worm.isMagnetActive
                THEN {[w |-> w2, ate |-> TRUE]}
                ELSE FoodScan(w2, pId, head, j - 1, TRUE, t) :
                   w2 \in EatFood(w, pId, j, t)}
    ELSE FoodScan(w, pId, head, j - 1, ate, t)

\* TrimTail without the test of ateFoodThisTickFlag
TrimTailAlways(w, pId, ate) ==
    LET worm == Player(w, pId).worm
    IN  IF Len(worm.segments) > WORM_INITIAL_LENGTH
        THEN SetWorm(w, pId,
                 [worm EXCEPT !.segments = SubSeq(@, 1, Len(@) - 1)])
        ELSE w

\* TrimTail without the test of segments.length > WORM_INITIAL_LENGTH
TrimTailBelowMinimum(w, pId, ate) ==
    LET worm == Player(w, pId).worm
    IN  IF ~ate
        THEN SetWorm(w, pId,
                 [worm EXCEPT !.segments = SubSeq(@, 1, Len(@) - 1)])
        ELSE w

\* the tail is removed only if the worm ate nothing this tick
TrimTail(w, pId, ate) ==
    LET worm == Player(w, pId).worm
    IN  IF ~ate /\ Len(worm.segments) > WORM_INITIAL_LENGTH
        THEN SetWorm(w, pId,
                 [worm EXCEPT !.segments = SubSeq(@, 1, Len(@) - 1)])
        ELSE w

\* the food loop over livingWorms, from the i-th on
RECURSIVE FoodPhase(_, _, _, _)
FoodPhase(w, livingWorms, i, t) ==
    IF i > Len(livingWorms) THEN {w}
    ELSE LET pId == livingWorms[i]
             worm == Player(w, pId).worm
         IN  IF Len(worm.segments) = 0
             THEN FoodPhase(w, livingWorms, i + 1, t)
             ELSE UNION {FoodPhase(TrimTail(r.w, pId, r.ate), livingWorms, i + 1, t) :
                           r \in FoodScan(w, pId, worm.segments[1],
                                          Len(w.food), FALSE, t)}

OutsideWorld(head) ==
    head.x < 0 \/ head.x > WORLD_WIDTH \/ head.y < 0 \/ head.y > WORLD_HEIGHT

HitsSelf(worm) ==
    \E k \in (SELF_COLLISION_START_INDEX + 1)..Len(worm.segments) :
        WithinSelfCollision(DistSq(worm.segments[1], worm.segments[k]))

HitsOther(head, otherWorm) ==
    \E k \in 1..Len(otherWorm.segments) :
        WithinOtherCollision(DistSq(head, otherWorm.segments[k]))

\* OthersHit without the test of otherPlayer.worm.isAlive
OthersHitDeadToo(w, livingWorms, pId) ==
    SelectSeq(livingWorms,
        LAMBDA oId : /\ oId # pId
                     /\ HitsOther(Player(w, pId).worm.segments[1],
                                  Player(w, oId).worm))

\* OthersHit that looks only at the worms before pId in livingWorms
OthersHitEarlier(w, livingWorms, pId) ==
    LET at(id) == CHOOSE n \in 1..Len(livingWorms) : livingWorms[n] = id
    IN  SelectSeq(livingWorms,
            LAMBDA oId : /\ oId # pId
                         /\ at(oId) < at(pId)
                         /\ Player(w, oId).worm.isAlive
                         /\ HitsOther(Player(w, pId).worm.segments[1],
                                      Player(w, oId).worm))

\* the other living worms, in livingWorms order, the head collides with
OthersHit(w, livingWorms, pId) ==
    SelectSeq(livingWorms,
        LAMBDA oId : /\ oId # pId
                     /\ Player(w, oId).worm.isAlive
                     /\ HitsOther(Player(w, pId).worm.segments[1],
                                  Player(w, oId).worm))

\* CollisionPhase without the world boundary check
RECURSIVE CollisionPhaseUnbounded(_, _, _, _)
CollisionPhaseUnbounded(w, livingWorms, i, t) ==
    IF i > Len(livingWorms) THEN {w}
    ELSE LET pId == livingWorms[i]
             worm == Player(w, pId).worm
             next(ws) ==
                 UNION {CollisionPhaseUnbounded(w2, livingWorms, i + 1, t) : w2 \in ws}
         IN  IF Len(worm.segments) = 0 \/ ~worm.isAlive THEN next({w})
             ELSE IF HitsSelf(worm)
             THEN next(killPlayer(w, pId, <<"collided with self">>, t))
             ELSE IF OthersHit(w, livingWorms, pId) # <<>>
             THEN next(killPlayer(w, pId,
                      <<"collided with",
                        Player(w, OthersHit(w, livingWorms, pId)[1]).name>>, t))
             ELSE next({w})

\* the collision loop over livingWorms, from the i-th on
RECURSIVE CollisionPhase(_, _, _, _)
CollisionPhase(w, livingWorms, i, t) ==
    IF i > Len(livingWorms) THEN {w}
    ELSE LET pId == livingWorms[i]
             worm == Player(w, pId).worm
             next(ws) == UNION {CollisionPhase(w2, livingWorms, i + 1, t) : w2 \in ws}
         IN  IF Len(worm.segments) = 0 THEN next({w})
             ELSE IF OutsideWorld(worm.segments[1])
             THEN next(killPlayer(w, pId, <<"hit world boundary">>, t))
             ELSE IF ~worm.isAlive THEN next({w})
             ELSE IF HitsSelf(worm)
             THEN next(killPlayer(w, pId, <<"collided with self">>, t))
             ELSE IF OthersHit(w, livingWorms, pId) # <<>>
             THEN next(killPlayer(w, pId,
                      <<"collided with",
                        Player(w, OthersHit(w, livingWorms, pId)[1]).name>>, t))
             ELSE next({w})

LivingWorms(w) ==
    LET alive == SelectSeq(w.players, LAMBDA player : player.worm.isAlive)
    IN  [i \in 1..Len(alive) |-> alive[i].id]

\* checkCollisions without the clearing of eatenFoodThisTick
checkCollisionsKeepingEaten(w, t) ==
    LET livingWorms == LivingWorms(w)
    IN  UNION {CollisionPhase(w1, livingWorms, 1, t) :
                 w1 \in FoodPhase(w, livingWorms, 1, t)}

checkCollisions(w, t) ==
    LET w0 == [w EXCEPT !.eatenFoodThisTick = <<>>]
        livingWorms == LivingWorms(w0)
    IN  UNION {CollisionPhase(w1, livingWorms, 1, t) :
                 w1 \in FoodPhase(w0, livingWorms, 1, t)}

\* ------------------------------------------------------------------------
\* getLeaderboard, prepareGameState
\* ------------------------------------------------------------------------
\* SortByScore by a sort that is not stable: the next entry goes before the
\* entries of its score
RECURSIVE SortByScoreUnstable(_)
SortByScoreUnstable(entries) ==
    IF Len(entries) = 0 THEN <<>>
    ELSE LET sorted == SortByScoreUnstable(SubSeq(entries, 1, Len(entries) - 1))
             e == entries[Len(entries)]
             n == Cardinality({i \in 1..Len(sorted) : sorted[i].score > e.score})
         IN  SubSeq(sorted, 1, n) \o <<e>> \o SubSeq(sorted, n + 1, Len(sorted))

\* Array.prototype.sort is stable: insertion of the next entry after every
\* entry whose score is not smaller
RECURSIVE SortByScore(_)
SortByScore(entries) ==
    IF Len(entries) = 0 THEN <<>>
    ELSE LET sorted == SortByScore(SubSeq(entries, 1, Len(entries) - 1))
             e == entries[Len(entries)]
             n == Cardinality({i \in 1..Len(sorted) : sorted[i].score >= e.score})
         IN  SubSeq(sorted, 1, n) \o <<e>> \o SubSeq(sorted, n + 1, Len(sorted))

\* .slice(0, 10)
LeaderboardSize == 10

getLeaderboard(w) ==
    LET entries == [i \in 1..Len(w.players) |->
                      [id |-> w.players[i].id, name |-> w.players[i].name,
                       score |-> w.players[i].worm.score,
                       color |-> w.players[i].worm.color]]
        sorted == SortByScore(entries)
    IN  SubSeq(sorted, 1, Min(LeaderboardSize, Len(sorted)))

\* prepareGameState that leaves the dead worms out
prepareGameStateOfLiving(w) ==
    LET living == SelectSeq(w.players, LAMBDA p : p.worm.isAlive)
    IN  [worms |->
            [i \in 1..Len(living) |->
                [id |-> living[i].id, name |-> living[i].name,
                 isBot |-> living[i].isBot,
                 segments |-> living[i].worm.segments,
                 color |-> living[i].worm.color,
                 angle |-> living[i].worm.angle,
                 score |-> living[i].worm.score,
                 isGameOver |-> FALSE,
                 hasSpeedBoost |-> living[i].worm.hasSpeedBoost,
                 isMagnetActive |-> living[i].worm.isMagnetActive]],
         food |-> w.food,
         leaderboard |-> getLeaderboard(w),
         eatenFood |-> w.eatenFoodThisTick]

prepareGameState(w) ==
    [worms |->
        [i \in 1..Len(w.players) |->
            LET p == w.players[i]
            IN  [id |-> p.id, name |-> p.name, isBot |-> p.isBot,
                 segments |-> p.worm.segments, color |-> p.worm.color,
                 angle |-> p.worm.angle, score |-> p.worm.score,
                 isGameOver |-> ~p.worm.isAlive,
                 hasSpeedBoost |-> p.worm.hasSpeedBoost,
                 isMagnetActive |-> p.worm.isMagnetActive]],
     food |-> w.food,
     leaderboard |-> getLeaderboard(w),
     eatenFood |-> w.eatenFoodThisTick]

\* ------------------------------------------------------------------------
\* gameLoop
\* ------------------------------------------------------------------------
BotIds(w) ==
    LET bots == SelectSeq(w.players, LAMBDA player : player.isBot)
    IN  [i \in 1..Len(bots) |-> bots[i].id]

\* ReconcileBots that never removes a bot
ReconcileBotsAddOnly(w) ==
    LET humanPlayerCount == Len(SelectSeq(w.players, LAMBDA player : ~player.isBot))
        currentBotCount == Len(BotIds(w))
        targetBots == Max(BOT_COUNT, humanPlayerCount * 2)
    IN  IF currentBotCount < targetBots THEN addBot(w) ELSE {w}

\* 0. bot management
ReconcileBots(w) ==
    LET humanPlayerCount == Len(SelectSeq(w.players, LAMBDA player : ~player.isBot))
        currentBotCount == Len(BotIds(w))
        targetBots == Max(BOT_COUNT, humanPlayerCount * 2)
    IN  IF currentBotCount < targetBots THEN addBot(w)
        ELSE IF currentBotCount > targetBots /\ currentBotCount > 0
        THEN {removeBot(botToRemoveId.w, botToRemoveId.v) :
                botToRemoveId \in Draw(w, "botToRemove", Range(BotIds(w)))}
        ELSE {w}

\* 1. updateBotAI for every living bot, in registry order, from the i-th on
RECURSIVE BotPhase(_, _)
BotPhase(w, i) ==
    IF i > Len(w.players) THEN {w}
    ELSE LET player == w.players[i]
         IN  IF player.isBot /\ player.worm.isAlive
             THEN UNION {BotPhase(w2, i + 1) : w2 \in updateBotAI(w, player.id)}
             ELSE BotPhase(w, i + 1)

\* 2. updateWorm for every living worm
MovePhase(w, t) ==
    [w EXCEPT !.players =
        [i \in 1..Len(w.players) |->
            IF w.players[i].worm.isAlive
            THEN [w.players[i] EXCEPT !.worm = updateWorm(@, t)]
            ELSE w.players[i]]]

\* 4. the snapshot is assembled and broadcast
EmitGameState(w) ==
    [w EXCEPT !.broadcast = Append(@, prepareGameState(w))]

\* gameLoop with the broadcast before the collision phase
gameLoopEmitFirst(w, t) ==
    UNION {checkCollisions(EmitGameState(MovePhase(w2, t)), t) :
             w2 \in UNION {BotPhase(w1, 1) : w1 \in ReconcileBots(w)}}

gameLoop(w, t) ==
    UNION {{EmitGameState(w3) : w3 \in checkCollisions(MovePhase(w2, t), t)} :
             w2 \in UNION {BotPhase(w1, 1) : w1 \in ReconcileBots(w)}}

\* ------------------------------------------------------------------------
\* State
\* ------------------------------------------------------------------------
VARIABLES players, food, eatenFoodThisTick, nextFoodId, nextBotId,
          sockets, timers, sent, log, broadcast, rnd, running, now,
          nextSocketId, acted

vars == <<players, food, eatenFoodThisTick, nextFoodId, nextBotId,
          sockets, timers, sent, log, broadcast, rnd, running, now,
          nextSocketId, acted>>

\* the kinds of draws that yield one value over a whole behaviour, not just
\* over one run of a handler
LastingKinds == {"foodType"}

Lasting(drawn) == [k \in DOMAIN drawn \cap LastingKinds |-> drawn[k]]

world == <<players, food, eatenFoodThisTick, nextFoodId, nextBotId,
           sockets, timers, sent, log, broadcast, rnd, running>>

\* one more message is acted on
Act == acted < MaxMessages /\ acted' = acted + 1

World ==
    [players |-> players, food |-> food,
     eatenFoodThisTick |-> eatenFoodThisTick,
     nextFoodId |-> nextFoodId, nextBotId |-> nextBotId,
     sockets |-> sockets, timers |-> timers, sent |-> sent, log |-> log,
     broadcast |-> broadcast, rnd |-> rnd, running |-> running]

Install(w) ==
    /\ players' = w.players
    /\ food' = w.food
    /\ eatenFoodThisTick' = w.eatenFoodThisTick
    /\ nextFoodId' = w.nextFoodId
    /\ nextBotId' = w.nextBotId
    /\ sockets' = w.sockets
    /\ timers' = w.timers
    /\ sent' = w.sent
    /\ log' = w.log
    /\ broadcast' = w.broadcast
    /\ running' = w.running
    /\ rnd' = Lasting(w.rnd)

EmptyWorld ==
    [players |-> <<>>, food |-> <<>>, eatenFoodThisTick |-> <<>>,
     nextFoodId |-> 0, nextBotId |-> 0, sockets |-> {}, timers |-> <<>>,
     sent |-> <<>>, log |-> <<>>, broadcast |-> <<>>, rnd |-> <<>>,
     running |-> TRUE]

RECURSIVE AddBots(_, _)
AddBots(w, n) ==
    IF n = 0 THEN {w} ELSE UNION {AddBots(w2, n - 1) : w2 \in addBot(w)}

\* spawnFood(MAX_FOOD / 2): the loop runs while i < MAX_FOOD / 2; then
\* BOT_COUNT times addBot
Startup ==
    UNION {AddBots(w, BOT_COUNT) : w \in spawnFood(EmptyWorld, (MAX_FOOD + 1) \div 2)}

Init ==
    /\ now = 0
    /\ nextSocketId = 0
    /\ acted = 0
    /\ \E w \in Startup :
          /\ players = w.players
          /\ food = w.food
          /\ eatenFoodThisTick = w.eatenFoodThisTick
          /\ nextFoodId = w.nextFoodId
          /\ nextBotId = w.nextBotId
          /\ sockets = w.sockets
          /\ timers = w.timers
          /\ sent = w.sent
          /\ log = w.log
          /\ broadcast = w.broadcast
          /\ running = w.running
          /\ rnd = Lasting(w.rnd)

\* ------------------------------------------------------------------------
\* Actions
\* ------------------------------------------------------------------------
\* a callback whose delay has elapsed runs before the next tick does
Expired(timer) == timer.due <= now

\* Tick with a disconnect handled after the movement phase: the collision
\* phase and the snapshot work on a registry without the socket's worm
TickInterleaved ==
    /\ running
    /\ now < MaxTime
    /\ \A i \in 1..Len(timers) : ~Expired(timers[i])
    /\ now' = now + 1
    /\ LET start == [World EXCEPT !.sent = <<>>, !.log = <<>>, !.broadcast = <<>>]
           gone(w) ==
               IF \E i \in 1..Len(w.players) : ~w.players[i].isBot
               THEN LET i == CHOOSE i \in 1..Len(w.players) : ~w.players[i].isBot
                    IN  [w EXCEPT !.sockets = @ \ {w.players[i].id},
                                  !.players = RemoveAt(@, i)]
               ELSE w
       IN  \E w2 \in UNION {BotPhase(w1, 1) : w1 \in ReconcileBots(start)} :
           \E w3 \in checkCollisions(gone(MovePhase(w2, now + 1)), now + 1) :
              Install(EmitGameState(w3))
    /\ UNCHANGED <<nextSocketId, acted>>

\* setInterval(gameLoop, TICK_RATE_MS)
Tick ==
    /\ running
    /\ now < MaxTime
    /\ \A i \in 1..Len(timers) : ~Expired(timers[i])
    /\ now' = now + 1
    /\ \E w \in gameLoop([World EXCEPT !.sent = <<>>, !.log = <<>>,
                                        !.broadcast = <<>>], now + 1) :
          Install(w)
    /\ UNCHANGED <<nextSocketId, acted>>

\* io.on('connection')
Connect ==
    /\ running
    /\ nextSocketId < MaxSockets
    /\ nextSocketId' = nextSocketId + 1
    /\ LET id == SocketId(nextSocketId)
           entry(color) ==
               [id |-> id, name |-> SocketName(nextSocketId), isBot |-> FALSE,
                worm |-> PlaceholderWorm(color)]
       IN  \E c \in getRandomColor(World) :
           \E w \in resetPlayer([c.w EXCEPT !.players = Append(@, entry(c.v)),
                                            !.sockets = @ \cup {id}], id) :
              Install([w EXCEPT !.sent =
                          Append(@, [to |-> id, event |-> "welcome", score |-> 0])])
    /\ UNCHANGED <<now, acted>>

\* what a client can send as playerInput: a finite angle, or something else
InputAngles == {-(TwoPI + 1), 1, TwoPI + PI}

InputData ==
    [kind : {"number"}, angle : InputAngles]
    \cup [kind : {"NaN", "Infinity", "string", "missing"}, angle : {0}]

\* PlayerInput without the test of isAlive
PlayerInputOfDead(id, data) ==
    /\ id \in sockets
    /\ IF HasPlayer(World, id) /\ data.kind = "number"
       THEN /\ Act
            /\ Install(SetWorm(World, id,
                   [Player(World, id).worm EXCEPT !.targetAngle = data.angle]))
       ELSE UNCHANGED <<acted, world>>
    /\ UNCHANGED <<now, nextSocketId>>

\* socket.on('playerInput')
PlayerInput(id, data) ==
    /\ id \in sockets
    /\ IF /\ HasPlayer(World, id)
          /\ Player(World, id).worm.isAlive
          /\ data.kind = "number"
       THEN /\ Act
            /\ Install(SetWorm(World, id,
                   [Player(World, id).worm EXCEPT !.targetAngle = data.angle]))
       ELSE UNCHANGED <<acted, world>>
    /\ UNCHANGED <<now, nextSocketId>>

\* Respawn without the test of isAlive
RespawnOfAlive(id) ==
    /\ id \in sockets
    /\ IF HasPlayer(World, id)
       THEN /\ Act
            /\ \E w \in resetPlayer(World, id) : Install(w)
       ELSE UNCHANGED <<acted, world>>
    /\ UNCHANGED <<now, nextSocketId>>

\* socket.on('respawn')
Respawn(id) ==
    /\ id \in sockets
    /\ IF HasPlayer(World, id) /\ ~Player(World, id).worm.isAlive
       THEN /\ Act
            /\ \E w \in resetPlayer(World, id) : Install(w)
       ELSE UNCHANGED <<acted, world>>
    /\ UNCHANGED <<now, nextSocketId>>

\* Disconnect calling killPlayer on the entry instead of deleting it
DisconnectKills(id) ==
    /\ id \in sockets
    /\ Act
    /\ \E w \in killPlayer([World EXCEPT !.sockets = @ \ {id}], id,
                            <<"disconnected">>, now) : Install(w)
    /\ UNCHANGED <<now, nextSocketId>>

\* Disconnect with a death pass before the entry is deleted
DisconnectWithDeath(id) ==
    /\ id \in sockets
    /\ Act
    /\ \E w \in killPlayer(World, id, <<"disconnected">>, now) :
          Install([w EXCEPT
                     !.sockets = @ \ {id},
                     !.players = IF HasPlayer(w, id)
                                 THEN RemoveAt(@, IndexOf(w, id)) ELSE @])
    /\ UNCHANGED <<now, nextSocketId>>

\* socket.on('disconnect')
Disconnect(id) ==
    /\ id \in sockets
    /\ Act
    /\ Install([World EXCEPT
                  !.sockets = @ \ {id},
                  !.players = IF HasPlayer(World, id)
                              THEN RemoveAt(@, IndexOf(World, id)) ELSE @])
    /\ UNCHANGED <<now, nextSocketId>>

\* String.prototype.trim, on a string given as the sequence of its
\* characters
RECURSIVE Trim(_)
Trim(str) ==
    IF Len(str) = 0 THEN str
    ELSE IF str[1] = " " THEN Trim(Tail(str))
    ELSE IF str[Len(str)] = " " THEN Trim(SubSeq(str, 1, Len(str) - 1))
    ELSE str

\* String.prototype.substring(0, n)
Substring0(str, n) == SubSeq(str, 1, Min(n, Len(str)))

\* a name of one character more than MaxNameLength
LongName == [i \in 1..(MaxNameLength + 1) |-> Digit(i)]

\* what a client can send as setPlayerName: a string, an object that holds
\* one, a number, or nothing
NamePayloads ==
    [kind : {"string", "object"},
     name : {<<>>, <<" ", " ">>, <<" ", "a", "b", " ">>, <<" ">> \o LongName}]
    \cup [kind : {"number", "missing"}, name : {<<>>}]

\* socket.on('setPlayerName'): the payload itself is the name
SetPlayerName(id, payload) ==
    /\ id \in sockets
    /\ LET sanitizedName == Substring0(Trim(payload.name), MaxNameLength)
       IN  IF /\ HasPlayer(World, id)
              /\ payload.kind = "string"
              /\ sanitizedName # <<>>
           THEN /\ Act
                /\ Install([World EXCEPT
                              !.players[IndexOf(World, id)].name = sanitizedName])
           ELSE UNCHANGED <<acted, world>>
    /\ UNCHANGED <<now, nextSocketId>>

\* BotRespawnCallback that respawns nothing
BotRespawnCallbackIdle(w, pId) == {w}

\* the callbacks of the two setTimeout calls
BotRespawnCallback(w, pId) ==
    IF HasPlayer(w, pId) /\ ~Player(w, pId).worm.isAlive
    THEN resetPlayer(w, pId)
    ELSE {w}

MagnetExpiryCallback(w, pId) ==
    IF HasPlayer(w, pId) /\ Player(w, pId).worm.isMagnetActive
    THEN SetWorm(w, pId, [Player(w, pId).worm EXCEPT !.isMagnetActive = FALSE])
    ELSE w

\* a pending callback runs once its delay has elapsed; callbacks run in the
\* order of their expiry, and those of one delay in scheduling order
FireTimer(i) ==
    /\ i \in 1..Len(timers)
    /\ Expired(timers[i])
    /\ \A j \in 1..Len(timers) :
          /\ timers[j].due >= timers[i].due
          /\ (timers[j].due = timers[i].due /\ timers[j].kind = timers[i].kind)
                => j >= i
    /\ LET timer == timers[i]
           w == [World EXCEPT !.timers = RemoveAt(@, i)]
       IN  IF timer.kind = "botRespawn"
           THEN \E w2 \in BotRespawnCallback(w, timer.pId) : Install(w2)
           ELSE Install(MagnetExpiryCallback(w, timer.pId))
    /\ UNCHANGED <<now, nextSocketId, acted>>

SocketIds == {SocketId(n) : n \in 0..(MaxSockets - 1)}

Next ==
    \/ Tick
    \/ Connect
    \/ \E id \in SocketIds : \E data \in InputData : PlayerInput(id, data)
    \/ \E id \in SocketIds : Respawn(id)
    \/ \E id \in SocketIds : Disconnect(id)
    \/ \E id \in SocketIds : \E payload \in NamePayloads : SetPlayerName(id, payload)
    \/ \E i \in 1..Len(timers) : FireTimer(i)

Spec == Init /\ [][Next]_vars

\* A phase of gameLoop throws.  gameLoop has no try/catch and the process no
\* 'uncaughtException' handler, so the exception leaves the setInterval
\* callback uncaught and Node ends the process: the sockets are closed and
\* the game state, the interval and the pending timeouts are gone.
TickFault ==
    /\ running
    /\ now < MaxTime
    /\ \A i \in 1..Len(timers) : ~Expired(timers[i])
    /\ Install([EmptyWorld EXCEPT !.running = FALSE])
    /\ UNCHANGED <<now, nextSocketId, acted>>

NextFault ==
    \/ Next
    \/ TickFault

\* the server when a tick may raise a fault
SpecFault == Init /\ [][NextFault]_vars

\* what enables Tick: gameLoop always returns
TickReady ==
    /\ running
    /\ now < MaxTime
    /\ \A i \in 1..Len(timers) : ~Expired(timers[i])

\* setInterval keeps calling gameLoop and every setTimeout callback runs
\* once its delay has elapsed.  The second conjunct is WF_vars(Tick) written
\* out: Tick is enabled exactly when TickReady holds, and the steps that
\* advance `now` are the Tick steps.
SpecLive ==
    /\ Spec
    /\ ([]<>(~TickReady) \/ []<><<now' = now + 1>>_vars)
    /\ WF_vars(\E i \in 1..Len(timers) : FireTimer(i))

\* ------------------------------------------------------------------------
\* The snapshot of an arbitrary registry: up to MaxBoard worms, alive and
\* dead, with the scores of no feed and of one feed
\* ------------------------------------------------------------------------
MaxBoard == 11

BoardScores == {0, FOOD_SCORE}

\* a registry of n worms with the given scores, every third worm dead
BoardRegistry(n, score) ==
    [i \in 1..n |->
        [id |-> BotId(i - 1), name |-> BotName(i - 1), isBot |-> TRUE,
         worm |-> [NewWorm(TRUE, [x |-> WormSpawnMargin, y |-> WormSpawnMargin],
                           0, 1)
                     EXCEPT !.score = score[i], !.isAlive = (i % 3 # 0)]]]

InitBoard ==
    /\ \E n \in 0..MaxBoard : \E score \in [1..n -> BoardScores] :
          players = BoardRegistry(n, score)
    /\ food = <<>>
    /\ eatenFoodThisTick = <<>>
    /\ nextFoodId = 0
    /\ nextBotId = Len(players)
    /\ sockets = {}
    /\ timers = <<>>
    /\ sent = <<>>
    /\ log = <<>>
    /\ broadcast = <<>>
    /\ rnd = <<>>
    /\ running = TRUE
    /\ now = 0
    /\ nextSocketId = 0
    /\ acted = 0

\* const gameState = prepareGameState(); io.emit('gameState', gameState)
Snapshot ==
    /\ broadcast = <<>>
    /\ broadcast' = EmitGameState(World).broadcast
    /\ UNCHANGED <<players, food, eatenFoodThisTick, nextFoodId, nextBotId,
                   sockets, timers, sent, log, rnd, running, now,
                   nextSocketId, acted>>

NextBoard == Snapshot

SpecBoard == InitBoard /\ [][NextBoard]_vars

\* ------------------------------------------------------------------------
\* spawnFood and killPlayer on their own: one worm of 1..MaxDropSegments
\* segments and a food list that spawnFood filled with 0..MAX_FOOD items.
\* What the two loops depend on is the room left below the cap (at startup
\* the program has MAX_FOOD / 2 free places).
\* ------------------------------------------------------------------------
MaxDropSegments == 5

\* a worm that has moved along y = WormSpawnMargin and grown to n segments
DropWorm(n, c) ==
    [NewWorm(TRUE, [x |-> 0, y |-> WormSpawnMargin], 0, c)
        EXCEPT !.segments = [k \in 1..n |->
                               [x |-> k - 1, y |-> WormSpawnMargin,
                                z |-> WORLD_GROUND_Z]]]

InitFood ==
    /\ now = 0
    /\ nextSocketId = 0
    /\ acted = 0
    /\ \E n \in 1..MaxDropSegments : \E c \in 1..(NumColors + 1) :
       \E m \in 0..MAX_FOOD :
       \E w \in spawnFood([EmptyWorld EXCEPT
                              !.players = <<[id |-> BotId(0), name |-> BotName(0),
                                            isBot |-> TRUE, worm |-> DropWorm(n, c)]>>,
                              !.nextBotId = 1], m) :
          /\ players = w.players
          /\ food = w.food
          /\ eatenFoodThisTick = w.eatenFoodThisTick
          /\ nextFoodId = w.nextFoodId
          /\ nextBotId = w.nextBotId
          /\ sockets = w.sockets
          /\ timers = w.timers
          /\ sent = w.sent
          /\ log = w.log
          /\ broadcast = w.broadcast
          /\ running = w.running
          /\ rnd = Lasting(w.rnd)

\* killPlayer(pId, reason) of a living worm
Die ==
    /\ \E i \in 1..Len(players) :
          /\ players[i].worm.isAlive
          /\ \E w \in killPlayer(World, players[i].id, <<"hit world boundary">>, now) :
                Install(w)
    /\ UNCHANGED <<now, nextSocketId, acted>>

\* spawnFood(count)
Refill ==
    /\ \E count \in 0..(MAX_FOOD + 1) : \E w \in spawnFood(World, count) :
          Install(w)
    /\ UNCHANGED <<now, nextSocketId, acted>>

NextFood ==
    \/ Die
    \/ Refill

SpecFood == InitFood /\ [][NextFood]_vars

\* ------------------------------------------------------------------------
\* Properties
\* ------------------------------------------------------------------------
PlayerIds(w) == {w.players[i].id : i \in 1..Len(w.players)}

\* the step is a tick
IsTick == now' = now + 1

KillReasons == {<<"hit world boundary">>, <<"collided with self">>}

GameOversTo(messages, pId) ==
    Cardinality({i \in 1..Len(messages) :
                    messages[i].event = "gameOver" /\ messages[i].to = pId})

DeathsOf(deaths, pId) ==
    Cardinality({i \in 1..Len(deaths) : deaths[i].id = pId})

RespawnTimersOf(pending, pId) ==
    Cardinality({i \in 1..Len(pending) :
                    pending[i].kind = "botRespawn" /\ pending[i].pId = pId})

\* killPlayer in the current state: on a worm that is not alive, or on an id
\* the registry does not hold, it changes nothing; on a living worm it logs
\* one death, emits one gameOver to a connected human and schedules one
\* respawn for a bot, and a second call, then or a tick later, changes
\* nothing
KillIsIdempotent ==
    \A pId \in PlayerIds(World) \cup {BotId(nextBotId)} :
      \A reason \in KillReasons :
        \A w1 \in killPlayer(World, pId, reason, now) :
          LET living == HasPlayer(World, pId) /\ Player(World, pId).worm.isAlive
              human == living /\ ~Player(World, pId).isBot /\ pId \in sockets
              bot == living /\ Player(World, pId).isBot
          IN  /\ ~living => w1 = World
              /\ living =>
                    /\ ~Player(w1, pId).worm.isAlive
                    /\ DeathsOf(w1.log, pId) = DeathsOf(log, pId) + 1
                    /\ Len(w1.log) = Len(log) + 1
                    /\ GameOversTo(w1.sent, pId) =
                          GameOversTo(sent, pId) + (IF human THEN 1 ELSE 0)
                    /\ Len(w1.sent) = Len(sent) + (IF human THEN 1 ELSE 0)
                    /\ Len(w1.timers) = Len(timers) + (IF bot THEN 1 ELSE 0)
              /\ \A again \in KillReasons : \A t \in {now, now + 1} :
                    killPlayer(w1, pId, again, t) = {w1}

\* a step in which a worm goes from alive to dead logs one death of it,
\* emits one gameOver to it if it is a connected human, and schedules one
\* respawn of it if it is a bot
OneDeathPass ==
    \A i \in 1..Len(players) :
      LET p == players[i]
      IN  (/\ p.worm.isAlive
           /\ HasPlayer(World', p.id)
           /\ ~Player(World', p.id).worm.isAlive)
          => /\ IsTick
             /\ DeathsOf(log', p.id) = 1
             /\ GameOversTo(sent', p.id) =
                   (IF ~p.isBot /\ p.id \in sockets THEN 1 ELSE 0)
             /\ RespawnTimersOf(timers', p.id) =
                   RespawnTimersOf(timers, p.id) + (IF p.isBot THEN 1 ELSE 0)

\* C1: killPlayer is idempotent.  Called on a worm that is already dead it
\* changes nothing (no food dropped, no gameOver emitted, no respawn timer
\* scheduled), and every transition of a worm from alive to dead comes with
\* exactly one death pass and, for a connected human, exactly one gameOver.
C1_KillPlayerIdempotent == []KillIsIdempotent /\ [][OneDeathPass]_vars

\* a connected human has died in the latest tick and got its gameOver, and
\* a bot is dead with its respawn pending
C1_Witness ==
    /\ \E i \in 1..Len(players) :
          /\ ~players[i].isBot
          /\ ~players[i].worm.isAlive
          /\ GameOversTo(sent, players[i].id) = 1
          /\ DeathsOf(log, players[i].id) = 1
    /\ \E i \in 1..Len(players) :
          /\ players[i].isBot
          /\ ~players[i].worm.isAlive
          /\ RespawnTimersOf(timers, players[i].id) = 1

\* C2: in every reachable state the food list holds at most MAX_FOOD items,
\* whatever startup spawning, consumption, replacement spawns and death
\* drops came before.
C2_FoodWithinCap == Len(food) <= MAX_FOOD

\* the list is full after a tick in which food was eaten and replaced and a
\* worm died
C2_Witness ==
    /\ Len(food) = MAX_FOOD
    /\ eatenFoodThisTick # <<>>
    /\ log # <<>>

FoodIds(items) == {items[i].id : i \in 1..Len(items)}

\* no two items of the list share an id, and every id in use is below the
\* counter
FoodIdsUnique ==
    /\ \A i, j \in 1..Len(food) : i # j => food[i].id # food[j].id
    /\ \A i \in 1..Len(food) : food[i].id < nextFoodId
    /\ \A i \in 1..Len(eatenFoodThisTick) : eatenFoodThisTick[i].id < nextFoodId

\* an item that enters the list gets an id no item has had before, and the
\* ids consumed in a tick are ids of no item in the list after it
FoodIdsFresh ==
    /\ \A i \in 1..Len(food') :
          food'[i].id \notin FoodIds(food) => food'[i].id >= nextFoodId
    /\ IsTick =>
          /\ \A i \in 1..Len(eatenFoodThisTick') :
                /\ eatenFoodThisTick'[i].id \notin FoodIds(food')
                /\ \/ eatenFoodThisTick'[i].id \in FoodIds(food)
                   \/ eatenFoodThisTick'[i].id >= nextFoodId
          /\ \A i, j \in 1..Len(eatenFoodThisTick') :
                i # j => eatenFoodThisTick'[i].id # eatenFoodThisTick'[j].id

\* C3: food ids are unique and never reused: no two items of the list share
\* an id, and the id of a consumed item is never assigned again, by
\* spawnFood or by a death drop.
C3_FoodIdsUniqueNeverReused == []FoodIdsUnique /\ [][FoodIdsFresh]_vars

\* an item dropped by a dead worm lies in the list, with an id above that of
\* an item consumed in the same tick
C3_Witness ==
    \E i \in 1..Len(food) : \E k \in 1..Len(players) :
        /\ ~players[k].worm.isAlive
        /\ DeathsOf(log, players[k].id) = 1
        /\ \E n \in 1..Len(players[k].worm.segments) :
              /\ players[k].worm.segments[n].x = food[i].x
              /\ players[k].worm.segments[n].y = food[i].y
        /\ food[i].type \notin specialFoodTypes
        /\ \E e \in 1..Len(eatenFoodThisTick) :
              eatenFoodThisTick[e].id < food[i].id

\* the worm of a tick's pre-state ate in the tick
AteInTick(pId) ==
    \E k \in 1..Len(eatenFoodThisTick') : eatenFoodThisTick'[k].eaterId = pId

\* a worm alive when a tick starts and still registered when it ends has one
\* segment more if it ate in the tick, and as many as before if it did not
GrowthLaw ==
    IsTick =>
      \A i \in 1..Len(players) :
        LET p == players[i]
        IN  (p.worm.isAlive /\ HasPlayer(World', p.id)) =>
               Len(Player(World', p.id).worm.segments) =
                  Len(p.worm.segments) + (IF AteInTick(p.id) THEN 1 ELSE 0)

\* C4: growth law per tick for a worm alive at the start of the tick: its
\* segment count after the tick is its count before plus one if it consumed
\* food in the tick, and its count before if it consumed nothing.
C4_GrowthLaw == [][GrowthLaw]_vars

\* a worm that has grown before moved through the latest tick without
\* eating, next to a worm that ate in it
C4_Witness ==
    /\ \E i \in 1..Len(players) :
          /\ players[i].worm.isAlive
          /\ Len(players[i].worm.segments) > WORM_INITIAL_LENGTH
          /\ \A k \in 1..Len(eatenFoodThisTick) :
                eatenFoodThisTick[k].eaterId # players[i].id
    /\ eatenFoodThisTick # <<>>
    /\ now >= 2

FeedsOf(eaten, pId) ==
    Cardinality({k \in 1..Len(eaten) : eaten[k].eaterId = pId})

\* the magnet of the worm is not active when the tick starts; a worm the
\* tick adds starts without magnet
NoMagnetBefore(pId) ==
    HasPlayer(World, pId) => ~Player(World, pId).worm.isMagnetActive

AtMostOneFeed ==
    IsTick =>
      \A pId \in PlayerIds(World') :
        NoMagnetBefore(pId) => FeedsOf(eatenFoodThisTick', pId) <= 1

\* C5: at most one feed per tick without magnet: a worm whose magnet is not
\* active when its food scan begins has at most one item removed from the
\* food list because of it in that tick, also when the item it eats is of
\* the magnet type.
C5_AtMostOneFeedWithoutMagnet == [][AtMostOneFeed]_vars

\* C6: speed boost flag lifecycle: the flag set by eating food of the speed
\* type is false again once the expiry timestamp has passed; the movement
\* phase of the tick in which the expiry is reached resets it.
C6_BoostFlagResetOnExpiry ==
    \A i \in 1..Len(players) :
        (players[i].worm.isAlive /\ players[i].worm.hasSpeedBoost)
           => now < players[i].worm.speedBoostEndTime

InFullTurn(angle) == 0 <= angle /\ angle < TwoPI

\* C7: angle normalization: the stored heading of every worm, bot or human,
\* whatever finite angle a human submitted, lies in [0, 2*pi), and so does
\* every desired heading written by the bot AI.
C7_HeadingsNormalized ==
    \A i \in 1..Len(players) :
        /\ InFullTurn(players[i].worm.angle)
        /\ players[i].isBot => InFullTurn(players[i].worm.targetAngle)

\* the length of the shorter arc between two headings
ArcDist(a, b) == Min((a - b) % TwoPI, TwoPI - ((a - b) % TwoPI))

\* a worm alive when a tick starts and still registered when it ends turned
\* to the desired heading the movement phase saw, its targetAngle after the
\* tick: onto it when it was within WORM_TURN_SPEED, and else by
\* WORM_TURN_SPEED towards it
TurnRateBound ==
    IsTick =>
      \A i \in 1..Len(players) :
        LET p == players[i]
            q == Player(World', p.id)
            before == p.worm.angle
            after == q.worm.angle
            desired == q.worm.targetAngle
        IN  (p.worm.isAlive /\ HasPlayer(World', p.id)) =>
               /\ ArcDist(after, before) <= WORM_TURN_SPEED
               /\ ArcDist(desired, before) <= WORM_TURN_SPEED
                     => (after - desired) % TwoPI = 0
               /\ ArcDist(desired, before) > WORM_TURN_SPEED
                     => /\ ArcDist(after, before) = WORM_TURN_SPEED
                        /\ ArcDist(desired, after) =
                              ArcDist(desired, before) - WORM_TURN_SPEED

InPhase(i) ==
    HasPlayer(World, players'[i].id) => Player(World, players'[i].id).worm.isAlive

\* entry j can be hit by entry i: it is another worm of the phase that was
\* not killed before entry i was checked
IsSource(j, i) ==
    /\ InPhase(j)
    /\ j # i
    /\ ~(j < i /\ ~players'[j].worm.isAlive)

SourcesHit(i) ==
    {j \in 1..Len(players') :
        IsSource(j, i) /\ HitsOther(players'[i].worm.segments[1], players'[j].worm)}

\* what the three checks, taken in the order boundary, self, other, make of
\* entry i: <<>> when none of them kills it
Verdict(i) ==
    IF OutsideWorld(players'[i].worm.segments[1])
    THEN <<[id |-> players'[i].id, reason |-> <<"hit world boundary">>]>>
    ELSE IF HitsSelf(players'[i].worm)
    THEN <<[id |-> players'[i].id, reason |-> <<"collided with self">>]>>
    ELSE IF SourcesHit(i) # {}
    THEN <<[id |-> players'[i].id,
            reason |-> <<"collided with",
                         players'[CHOOSE j \in SourcesHit(i) :
                                     \A k \in SourcesHit(i) : j <= k].name>>]>>
    ELSE <<>>

RECURSIVE Verdicts(_)
Verdicts(i) ==
    IF i > Len(players') THEN <<>>
    ELSE (IF InPhase(i) THEN Verdict(i) ELSE <<>>) \o Verdicts(i + 1)

\* the deaths of a tick are those the three checks give, worm by worm in
\* registry order, and the worms they kill are the dead of the phase
CollisionOrder ==
    IsTick =>
      /\ log' = Verdicts(1)
      /\ \A i \in 1..Len(players') :
            InPhase(i) => (players'[i].worm.isAlive <=> Verdict(i) = <<>>)

\* C9: within one collision phase every worm of the start-of-phase living
\* set is evaluated in the order boundary, self, other, stopping at the first
\* check that kills it, and a worm killed earlier in the phase is never a
\* collision source for a worm checked later in the phase.
C9_CollisionOrder == [][CollisionOrder]_vars

\* in the latest tick a worm survived with its head on a worm that was killed
\* before it was checked, and a worm that hit itself died of that
C9_Witness ==
    /\ \E i, k \in 1..Len(players) :
          /\ i < k
          /\ DeathsOf(log, players[i].id) = 1
          /\ ~players[i].worm.isAlive
          /\ players[k].worm.isAlive
          /\ FeedsOf(eatenFoodThisTick, players[k].id) >= 1
          /\ HitsOther(players[k].worm.segments[1], players[i].worm)
    /\ \E i \in 1..Len(log) : log[i].reason = <<"collided with self">>

AliveBefore(pId) == HasPlayer(World, pId) => Player(World, pId).worm.isAlive

\* a worm of the tick whose head is outside the world after the tick is
\* dead, died once and of the boundary, and got one gameOver with its score
\* if it is a connected human
BoundaryDeath ==
    IsTick =>
      \A i \in 1..Len(players') :
        LET q == players'[i]
        IN  (AliveBefore(q.id) /\ OutsideWorld(q.worm.segments[1])) =>
               /\ ~q.worm.isAlive
               /\ DeathsOf(log', q.id) = 1
               /\ \A k \in 1..Len(log') :
                     log'[k].id = q.id => log'[k].reason = <<"hit world boundary">>
               /\ (~q.isBot /\ q.id \in sockets') =>
                     /\ GameOversTo(sent', q.id) = 1
                     /\ \A k \in 1..Len(sent') :
                           (sent'[k].to = q.id /\ sent'[k].event = "gameOver")
                              => sent'[k].score = q.worm.score

NoLivingWormOutside ==
    \A i \in 1..Len(players) :
        players[i].worm.isAlive => ~OutsideWorld(players[i].worm.segments[1])

\* C10: boundary death: a living worm whose head after movement lies outside
\* [0, width] x [0, height] is dead at the end of the tick whatever other
\* collisions there are, a gameOver with its score is emitted if it is a
\* connected human, and no alive worm has its head outside the world.
C10_BoundaryDeath == []NoLivingWormOutside /\ [][BoundaryDeath]_vars

\* a connected human has left the world in the latest tick with a score, and
\* was told so
C10_Witness ==
    \E i \in 1..Len(players) :
        /\ ~players[i].isBot
        /\ players[i].id \in sockets
        /\ OutsideWorld(players[i].worm.segments[1])
        /\ ~players[i].worm.isAlive
        /\ players[i].worm.score > 0
        /\ \E k \in 1..Len(sent) :
              /\ sent[k].to = players[i].id
              /\ sent[k].event = "gameOver"
              /\ sent[k].score = players[i].worm.score
        /\ \E k \in 1..Len(log) :
              /\ log[k].id = players[i].id
              /\ log[k].reason = <<"hit world boundary">>

\* a worm dies only in a tick, which logs its death; a dead human comes back
\* to life only in the step of its own respawn request, a dead bot only in
\* the step of its respawn callback; an entry leaves the registry only in
\* the step of its connection's disconnect or, a bot, in a tick
LifecycleStep ==
    \A i \in 1..Len(players) :
      LET p == players[i]
          stays == HasPlayer(World', p.id)
          q == Player(World', p.id)
      IN  /\ (stays /\ p.worm.isAlive /\ ~q.worm.isAlive)
                => (IsTick /\ DeathsOf(log', p.id) = 1)
          /\ (stays /\ ~p.worm.isAlive /\ q.worm.isAlive)
                => IF p.isBot
                   THEN \E k \in 1..Len(timers) :
                           /\ timers[k].kind = "botRespawn"
                           /\ timers[k].pId = p.id
                           /\ FireTimer(k)
                   ELSE Respawn(p.id) /\ acted' = acted + 1
          /\ ~stays => IF p.isBot THEN IsTick ELSE Disconnect(p.id)

\* C11: worm lifecycle: Alive -> Dead only in the collision phase of a tick;
\* Dead -> Alive only through the respawn request of the worm's own
\* connection (human) or the bot respawn timer (bot); removal from the
\* registry only through disconnect or bot removal.
C11_LifecycleTransitions == [][LifecycleStep]_vars

\* a human that died in the latest tick is alive again, on its own request,
\* next to a bot that has come back by its timer
C11_Witness ==
    /\ acted = 1
    /\ \E i \in 1..Len(players) :
          /\ ~players[i].isBot
          /\ players[i].worm.isAlive
          /\ DeathsOf(log, players[i].id) = 1
    /\ \E i \in 1..Len(players) :
          /\ players[i].isBot
          /\ players[i].worm.isAlive
          /\ players[i].worm.botState = FreshBotState
          /\ RespawnTimersOf(timers, players[i].id) = 0
          /\ now >= 2

\* the bot population was reconciled once, on the counts the tick began with
ReconciledOnce ==
    LET humanPlayerCount == Len(SelectSeq(players, LAMBDA p : ~p.isBot))
        currentBotCount == Len(BotIds(World))
        targetBots == Max(BOT_COUNT, humanPlayerCount * 2)
    IN  /\ Len(BotIds(World')) =
              currentBotCount + (IF currentBotCount < targetBots THEN 1
                                 ELSE IF currentBotCount > targetBots THEN -1
                                 ELSE 0)
        /\ nextBotId' = nextBotId + (IF currentBotCount < targetBots THEN 1 ELSE 0)

\* the worm after the tick is the worm before it moved by one step: one new
\* head in front of the old segments, in the direction of the new heading,
\* and the new heading is the turn towards the desired heading the tick
\* leaves, which for a bot is the one its AI wrote in this tick
MovedOnce(before, after) ==
    /\ Len(after.segments) >= Len(before.segments)
    /\ \A k \in 2..Len(after.segments) : after.segments[k] = before.segments[k - 1]
    /\ after.angle = NormalizeAngle(TurnedAngle(before.angle, after.targetAngle))
    /\ \E speed \in {WORM_SPEED, BoostedSpeed} :
          /\ after.segments[1].x = before.segments[1].x + Cos(after.angle) * speed
          /\ after.segments[1].y = before.segments[1].y + Sin(after.angle) * speed

\* a bot the tick added was moved in the tick: it is one step away from a
\* worm resetPlayer can make
AddedBotMoved(after) ==
    \E spawnPos \in getRandomSpawnPositionXY(WormSpawnMargin) :
      \E startAngle \in StartAngleSamples :
        MovedOnce(NewWorm(TRUE, spawnPos, startAngle, after.color), after)

PhaseOrder ==
    IF IsTick
    THEN /\ ReconciledOnce
         /\ \A i \in 1..Len(players') :
               LET q == players'[i]
               IN  IF HasPlayer(World, q.id)
                   THEN IF Player(World, q.id).worm.isAlive
                        THEN MovedOnce(Player(World, q.id).worm, q.worm)
                        ELSE q.worm = Player(World, q.id).worm
                   ELSE AddedBotMoved(q.worm)
         /\ broadcast' = <<prepareGameState(World')>>
    ELSE broadcast' = broadcast

\* C12: in every tick the phases run in the order reconcile, bot AI,
\* movement, collision engine, snapshot and broadcast, each once, and one
\* gameState is broadcast per tick, after the collision phase of that tick.
C12_PhaseOrder == [][PhaseOrder]_vars

\* the gameState of the latest tick reports a bot the tick added, food eaten
\* in it and a worm it killed
C12_Witness ==
    /\ Len(broadcast) = 1
    /\ broadcast[1].eatenFood # <<>>
    /\ \E i \in 1..Len(broadcast[1].worms) : broadcast[1].worms[i].isGameOver
    /\ \E i \in 1..Len(broadcast[1].worms) :
          /\ broadcast[1].worms[i].id = BotId(nextBotId - 1)
          /\ nextBotId > BOT_COUNT
          /\ now = 1

\* the place of a worm in the registry a gameState reports
PlaceIn(worms, id) == CHOOSE i \in 1..Len(worms) : worms[i].id = id

\* the leaderboard of a gameState against the worms of the same gameState
LeaderboardOf(g) ==
    LET board == g.leaderboard
        worms == g.worms
        listed == {board[k].id : k \in 1..Len(board)}
    IN  /\ Len(board) = Min(10, Len(worms))
        /\ \A k \in 1..Len(board) :
              /\ \E i \in 1..Len(worms) : worms[i].id = board[k].id
              /\ board[k].score = worms[PlaceIn(worms, board[k].id)].score
              /\ board[k].name = worms[PlaceIn(worms, board[k].id)].name
              /\ board[k].color = worms[PlaceIn(worms, board[k].id)].color
        /\ \A k, l \in 1..Len(board) :
              k < l => /\ board[k].id # board[l].id
                       /\ board[k].score >= board[l].score
                       /\ board[k].score = board[l].score
                             => PlaceIn(worms, board[k].id) < PlaceIn(worms, board[l].id)
        /\ \A i \in 1..Len(worms) :
              worms[i].id \notin listed
                 => \A k \in 1..Len(board) : worms[i].score <= board[k].score

\* C13: the leaderboard holds min(10, number of worms) entries drawn from
\* all worms of the registry, alive or dead, sorted by score descending,
\* worms of equal score in registry order, and no worm left out has a score
\* above that of a worm included.
C13_Leaderboard == \A k \in 1..Len(broadcast) : LeaderboardOf(broadcast[k])

\* the leaderboard of a registry of more than ten worms, cut between two
\* worms of one score, with a dead worm on it and a worm of the higher score
\* late in the registry
C13_Witness ==
    /\ Len(broadcast) = 1
    /\ Len(broadcast[1].worms) > 10
    /\ Len(broadcast[1].leaderboard) = 10
    /\ broadcast[1].leaderboard[10].score = 0
    /\ broadcast[1].leaderboard[1].score > 0
    /\ broadcast[1].worms[1].score = 0
    /\ \E k \in 1..10 :
          broadcast[1].worms[PlaceIn(broadcast[1].worms,
                                     broadcast[1].leaderboard[k].id)].isGameOver

\* what a playerInput step does: nothing to the registry when the sender has
\* no living worm or the angle is not a finite number, and else it writes
\* the angle into the targetAngle of the sender's worm and nothing else
InputFrame(id, data) ==
    LET accepted == /\ HasPlayer(World, id)
                    /\ Player(World, id).worm.isAlive
                    /\ data.kind = "number"
    IN  /\ UNCHANGED <<food, eatenFoodThisTick, nextFoodId, nextBotId, sockets,
                       timers, sent, log, broadcast, now>>
        /\ ~accepted => UNCHANGED players
        /\ accepted =>
              players' = [players EXCEPT
                            ![IndexOf(World, id)].worm.targetAngle = data.angle]

\* C14: playerInput is ignored, the whole registry unchanged, when the
\* sender's worm is absent or dead or the angle is missing, not a number, NaN
\* or infinite; otherwise it changes only that worm's desired heading.
C14_PlayerInputFrame ==
    [][\A id \in SocketIds : \A data \in InputData :
          PlayerInput(id, data) => InputFrame(id, data)]_vars

\* a living human has asked for a heading that no movement phase has
\* consumed yet
C14_Witness ==
    /\ acted = 1
    /\ \E i \in 1..Len(players) :
          /\ ~players[i].isBot
          /\ players[i].worm.isAlive
          /\ players[i].worm.targetAngle = TwoPI + PI
          /\ players[i].worm.angle = 0
          /\ Len(broadcast) = 1
          /\ \E k \in 1..Len(broadcast[1].worms) :
                /\ broadcast[1].worms[k].id = players[i].id
                /\ broadcast[1].worms[k].segments = players[i].worm.segments

\* a worm as resetPlayer leaves it
IsFreshWorm(worm) ==
    /\ worm.isAlive
    /\ worm.score = 0
    /\ Len(worm.segments) = WORM_INITIAL_LENGTH
    /\ ~OutsideWorld(worm.segments[1])
    /\ worm.targetAngle = worm.angle
    /\ ~worm.hasSpeedBoost
    /\ worm.speedBoostEndTime = 0
    /\ ~worm.isMagnetActive

\* what a respawn step does: nothing when the sender has no worm or a living
\* one; a dead worm is replaced by a fresh one, and nothing else changes
RespawnFrame(id) ==
    LET effective == HasPlayer(World, id) /\ ~Player(World, id).worm.isAlive
        n == IndexOf(World, id)
    IN  /\ UNCHANGED <<food, eatenFoodThisTick, nextFoodId, nextBotId, sockets,
                       timers, sent, log, broadcast, now>>
        /\ ~effective => UNCHANGED players
        /\ effective =>
              /\ Len(players') = Len(players)
              /\ \A i \in 1..Len(players) : i # n => players'[i] = players[i]
              /\ players'[n] = [players[n] EXCEPT !.worm = players'[n].worm]
              /\ IsFreshWorm(players'[n].worm)

\* C15: a respawn request has an effect only when the sender's worm exists
\* and is dead: an alive worm keeps segments, score, heading and power-up
\* state; a dead worm is re-initialized, and food and all other worms are
\* unchanged.
C15_RespawnFrame ==
    [][\A id \in SocketIds : Respawn(id) => RespawnFrame(id)]_vars

\* a human that had scored and died in the latest tick is a fresh worm again,
\* and the food list is the one of the latest gameState
C15_Witness ==
    /\ Len(broadcast) = 1
    /\ food = broadcast[1].food
    /\ food # <<>>
    /\ \E i \in 1..Len(players) :
          /\ ~players[i].isBot
          /\ IsFreshWorm(players[i].worm)
          /\ \E k \in 1..Len(broadcast[1].worms) :
                /\ broadcast[1].worms[k].id = players[i].id
                /\ broadcast[1].worms[k].isGameOver
                /\ broadcast[1].worms[k].score > 0

\* what a disconnect step does: the sender's entry leaves the registry, the
\* other entries stay as they are and in their order, and nothing is
\* dropped, logged or emitted
DisconnectFrame(id) ==
    /\ UNCHANGED <<food, eatenFoodThisTick, nextFoodId, nextBotId, timers,
                   sent, log, broadcast, now>>
    /\ sockets' = sockets \ {id}
    /\ players' = SelectSeq(players, LAMBDA p : p.id # id)

\* the gameState of a tick lists, among the worms and on the leaderboard,
\* no human whose connection is gone
SnapshotOfConnected ==
    IsTick =>
      \A g \in Range(broadcast') :
        /\ \A k \in 1..Len(g.worms) :
              g.worms[k].isBot \/ g.worms[k].id \in sockets'
        /\ \A k \in 1..Len(g.leaderboard) :
              \E i \in 1..Len(g.worms) :
                 /\ g.worms[i].id = g.leaderboard[k].id
                 /\ g.worms[i].isBot \/ g.worms[i].id \in sockets'

\* C16: disconnect removes exactly the sender's worm entry, whatever its
\* state, without a death side effect: food, the food id counter and every
\* other worm are unchanged, no gameOver is emitted, and from the next
\* snapshot on the worm is neither among the worms nor on the leaderboard.
C16_DisconnectFrame ==
    /\ [][\A id \in SocketIds : Disconnect(id) => DisconnectFrame(id)]_vars
    /\ [][SnapshotOfConnected]_vars

\* a tick has run after the one human left: its gameState lists the bots
\* that are left, and the human had been a worm of the registry
C16_Witness ==
    /\ nextSocketId = 1
    /\ sockets = {}
    /\ acted = 1
    /\ nextBotId > BOT_COUNT
    /\ Len(broadcast) = 1
    /\ Len(broadcast[1].worms) = Len(players)
    /\ Len(broadcast[1].leaderboard) = Len(players)
    /\ \A i \in 1..Len(players) : players[i].isBot
    /\ \E i \in 1..Len(timers) : timers[i].pId = SocketId(0)

\* what the sender's name is said to become: a payload { name: s } whose s
\* is not empty after trimming gives s trimmed and cut to MaxNameLength, any
\* other payload leaves the name as it is
NameFrame(id, payload) ==
    LET wellFormed == /\ payload.kind = "object"
                      /\ Trim(payload.name) # <<>>
        named == Substring0(Trim(payload.name), MaxNameLength)
    IN  /\ UNCHANGED <<food, eatenFoodThisTick, nextFoodId, nextBotId, sockets,
                       timers, sent, log, broadcast, now>>
        /\ ~HasPlayer(World, id) => UNCHANGED players
        /\ HasPlayer(World, id) =>
              players' = [players EXCEPT
                            ![IndexOf(World, id)].name =
                                IF wellFormed THEN named ELSE @]

\* C17: setPlayerName with a payload { name: s }, s not empty after
\* trimming, sets the sender's name to s trimmed and cut to 16 characters;
\* any other payload leaves the name unchanged; nothing else changes.
C17_SetPlayerNameFrame ==
    [][\A id \in SocketIds : \A payload \in NamePayloads :
          SetPlayerName(id, payload) => NameFrame(id, payload)]_vars

\* the types of the items that a call of spawnFood appended
SpawnedTypes(before, after) ==
    {after.food[k].type : k \in (Len(before.food) + 1)..Len(after.food)}

\* C18 as stated: no item that spawnFood creates has one of the three
\* reserved power-up types.
C18_SpawnedNeverReserved ==
    \A count \in 1..MAX_FOOD : \A after \in spawnFood(World, count) :
        SpawnedTypes(World, after) \cap specialFoodTypes = {}

\* C18, amended: every item that spawnFood creates, at startup or as a
\* replacement, has a type in 1..FOOD_IMAGE_TYPES, the reserved power-up
\* types included.
C18_SpawnedTypeInRange ==
    \A count \in 1..MAX_FOOD : \A after \in spawnFood(World, count) :
        SpawnedTypes(World, after) \subseteq 1..FOOD_IMAGE_TYPES

\* a replacement for eaten food is on the board with a reserved type (death
\* drops never have one)
C18_Witness ==
    /\ now >= 1
    /\ \E k \in 1..Len(food) :
          /\ food[k].id >= (MAX_FOOD + 1) \div 2
          /\ food[k].type \in specialFoodTypes

\* the segments of a worm that may drop food: index 0, FOOD_DROP_INTERVAL,
\* 2 * FOOD_DROP_INTERVAL, ... (segments[k] has index k - 1)
DropSegments(worm) ==
    {k \in 1..Len(worm.segments) : (k - 1) % FOOD_DROP_INTERVAL = 0}

\* the death of worm, in world before, appended the items of after.food
\* beyond before.food: each lies on a segment that may drop, has the worm's
\* colour and no reserved type; no position got more items than it has
\* such segments; the list did not grow beyond MAX_FOOD
DropsOf(before, worm, after) ==
    LET old == Len(before.food)
        new == (old + 1)..Len(after.food)
        at(k) == {j \in new : /\ after.food[j].x = worm.segments[k].x
                              /\ after.food[j].y = worm.segments[k].y}
        same(k) == {k2 \in DropSegments(worm) :
                      /\ worm.segments[k2].x = worm.segments[k].x
                      /\ worm.segments[k2].y = worm.segments[k].y}
    IN  /\ Len(after.food) >= old
        /\ SubSeq(after.food, 1, old) = before.food
        /\ \A j \in new :
              /\ \E k \in DropSegments(worm) : j \in at(k)
              /\ after.food[j].color = worm.color
              /\ after.food[j].type \in 1..FOOD_IMAGE_TYPES
              /\ after.food[j].type \notin
                    {FOOD_TYPE_POWER, FOOD_TYPE_ZOOM, FOOD_TYPE_MAGNET}
        /\ \A k \in DropSegments(worm) :
              Cardinality(at(k)) <= Cardinality(same(k))
        /\ old >= MAX_FOOD => new = {}
        /\ old < MAX_FOOD => Len(after.food) <= MAX_FOOD

\* C19: the food a death creates lies on segments of the dying worm whose
\* index is a multiple of FOOD_DROP_INTERVAL, at most one item per such
\* segment, has the dying worm's colour and none of the three reserved
\* types, and none is created once the food list has reached MAX_FOOD.
\* Stated of the death of every living worm of a state, the worm taken with
\* each colour of 1..NumColors + 1.
C19_DeathDrops ==
    \A i \in 1..Len(players) : \A c \in 1..(NumColors + 1) :
      LET p == players[i]
          before == SetWorm(World, p.id, [p.worm EXCEPT !.color = c])
      IN  p.worm.isAlive =>
            \A reason \in KillReasons :
              \A after \in killPlayer(before, p.id, reason, now) :
                DropsOf(before, Player(before, p.id).worm, after)

\* a worm of more than 2 * FOOD_DROP_INTERVAL segments has died with the
\* food list empty: its head and the segment of index FOOD_DROP_INTERVAL
\* left food of its colour, which filled the list, and the segment of index
\* 2 * FOOD_DROP_INTERVAL left none
C19_Witness ==
    \E i \in 1..Len(players) :
      LET worm == players[i].worm
          on(k) == {j \in 1..Len(food) : /\ food[j].x = worm.segments[k].x
                                         /\ food[j].y = worm.segments[k].y
                                         /\ food[j].color = worm.color}
      IN  /\ ~worm.isAlive
          /\ DeathsOf(log, players[i].id) = 1
          /\ Len(worm.segments) > 2 * FOOD_DROP_INTERVAL
          /\ worm.color = NumColors + 1
          /\ Len(food) = MAX_FOOD
          /\ Cardinality(on(1)) = 1
          /\ Cardinality(on(FOOD_DROP_INTERVAL + 1)) = 1
          /\ on(2 * FOOD_DROP_INTERVAL + 1) = {}

\* spawnFood(count) in world before returned with world after: it appended
\* min(count, MAX_FOOD - food.length) items with the next ids and changed
\* nothing else
SpawnedExactly(before, count, after) ==
    LET old == Len(before.food)
        added == Min(count, MAX_FOOD - old)
    IN  /\ Len(after.food) = old + added
        /\ SubSeq(after.food, 1, old) = before.food
        /\ \A j \in 1..added : after.food[old + j].id = before.nextFoodId + j - 1
        /\ after.nextFoodId = before.nextFoodId + added
        /\ [after EXCEPT !.food = before.food,
                         !.nextFoodId = before.nextFoodId,
                         !.rnd = before.rnd] = before

\* C20: spawnFood(count) never fails: it returns, having added exactly
\* min(count, MAX_FOOD - current food count) items, on a clear position or
\* else on the fallback position; with the list at the cap it leaves the
\* food list and the food id counter as they are.
C20_SpawnFoodExact ==
    \A count \in 0..(MAX_FOOD + 1) :
      /\ spawnFood(World, count) # {}
      /\ \A after \in spawnFood(World, count) :
            /\ SpawnedExactly(World, count, after)
            /\ Len(food) = MAX_FOOD =>
                  /\ after.food = food
                  /\ after.nextFoodId = nextFoodId

\* spawnFood has filled the list up to the cap, the last item on a fallback
\* position because no tried position was clear of the first
C20_Witness ==
    /\ Len(food) = MAX_FOOD
    /\ nextFoodId = MAX_FOOD
    /\ log = <<>>
    /\ \E p \in getRandomSpawnPositionXY(FoodClearance) :
          food[1].x = p.x /\ food[1].y = p.y
    /\ ~\E p \in getRandomSpawnPositionXY(FoodClearance) :
          food[MAX_FOOD].x = p.x /\ food[MAX_FOOD].y = p.y
    /\ \E p \in getRandomSpawnPositionXY((FoodClearance + 1) \div 2) :
          food[MAX_FOOD].x = p.x /\ food[MAX_FOOD].y = p.y

\* how many entries of an eaten-food list name the eater
EatenBy(eaten, pId) ==
    Cardinality({k \in 1..Len(eaten) : eaten[k].eaterId = pId})

\* the consumption of any item by any living worm of the state: the score
\* goes up by FOOD_SCORE, the item leaves the list, one item with the next
\* id joins it at the end, and the list is as long as before
OneForOne ==
    \A i \in 1..Len(players) : \A j \in 1..Len(food) :
      players[i].worm.isAlive =>
        \A after \in EatFood(World, players[i].id, j, now) :
          /\ Player(after, players[i].id).worm.score =
                players[i].worm.score + FOOD_SCORE
          /\ food[j].id \notin FoodIds(after.food)
          /\ Len(after.food) = Len(food)
          /\ SubSeq(after.food, 1, Len(food) - 1) = RemoveAt(food, j)
          /\ after.food[Len(food)].id = nextFoodId
          /\ after.nextFoodId = nextFoodId + 1
          /\ Len(after.eatenFoodThisTick) = Len(eatenFoodThisTick) + 1

\* a tick pays FOOD_SCORE per item eaten, removes every eaten item, and,
\* when no worm died in it, creates as many items as were eaten and leaves
\* the list as long as it was
TickFeeds ==
    IsTick =>
      /\ \A i \in 1..Len(players) :
            HasPlayer(World', players[i].id) =>
              Player(World', players[i].id).worm.score =
                players[i].worm.score
                  + FOOD_SCORE * EatenBy(eatenFoodThisTick', players[i].id)
      /\ \A k \in 1..Len(eatenFoodThisTick') :
            eatenFoodThisTick'[k].id \notin FoodIds(food')
      /\ log' = <<>> =>
            /\ Len(food') = Len(food)
            /\ nextFoodId' = nextFoodId + Len(eatenFoodThisTick')

\* C21: for each food item a worm consumes, its score increases by exactly
\* FOOD_SCORE, the item is removed from the food list and exactly one
\* replacement with a fresh id is added, so the food count after a
\* consumption equals the count before it.
C21_ConsumptionOneForOne == []OneForOne /\ [][TickFeeds]_vars

\* a worm has eaten in the latest tick, in which no worm died: it holds the
\* reward, the eaten id is gone and the newest id is on the list
C21_Witness ==
    /\ log = <<>>
    /\ Len(eatenFoodThisTick) = 1
    /\ HasPlayer(World, eatenFoodThisTick[1].eaterId)
    /\ Player(World, eatenFoodThisTick[1].eaterId).worm.score = FOOD_SCORE
    /\ eatenFoodThisTick[1].id \notin FoodIds(food)
    /\ nextFoodId - 1 \in FoodIds(food)
    /\ Len(food) = (MAX_FOOD + 1) \div 2

\* a step in which a bot goes from alive to dead schedules one respawn
\* callback for it
BotDeathSchedules ==
    \A i \in 1..Len(players) :
      LET p == players[i]
      IN  (/\ p.isBot
           /\ p.worm.isAlive
           /\ HasPlayer(World', p.id)
           /\ ~Player(World', p.id).worm.isAlive)
          => /\ RespawnTimersOf(timers, p.id) = 0
             /\ RespawnTimersOf(timers', p.id) = 1

\* the respawn callback of a bot that is in the registry and dead gives it
\* a fresh worm and touches no other entry; that of a bot that is not
\* changes nothing; no callback adds an entry
RespawnCallbackFrame ==
    \A i \in 1..Len(timers) :
      (FireTimer(i) /\ timers[i].kind = "botRespawn") =>
        LET pId == timers[i].pId
            due == HasPlayer(World, pId) /\ ~Player(World, pId).worm.isAlive
        IN  /\ timers' = RemoveAt(timers, i)
            /\ UNCHANGED <<food, eatenFoodThisTick, nextFoodId, nextBotId,
                           sockets, sent, log, broadcast, now>>
            /\ ~due => UNCHANGED players
            /\ due =>
                  /\ Len(players') = Len(players)
                  /\ \A k \in 1..Len(players) :
                        IF players[k].id = pId
                        THEN /\ players'[k].id = pId
                             /\ players'[k].isBot
                             /\ IsFreshWorm(players'[k].worm)
                        ELSE players'[k] = players[k]

\* a dead bot of the registry has exactly one respawn callback pending
DeadBotHasOneTimer ==
    \A i \in 1..Len(players) :
      (players[i].isBot /\ ~players[i].worm.isAlive) =>
         RespawnTimersOf(timers, players[i].id) = 1

\* the bot is in the registry, dead, and its callback falls due within the
\* time the model runs
DeadBotWaiting(pId) ==
    /\ HasPlayer(World, pId)
    /\ ~Player(World, pId).worm.isAlive
    /\ \A i \in 1..Len(timers) :
          (timers[i].kind = "botRespawn" /\ timers[i].pId = pId)
             => timers[i].due <= MaxTime

\* C22: each death of a bot schedules exactly one respawn callback; the
\* callback respawns the bot only if it is still in the registry and still
\* dead and otherwise changes nothing; a dead bot of the registry always
\* has exactly one callback pending, and a dead bot that is not removed is
\* eventually alive again (no bot stays dead in the registry for ever; the
\* model adds at most BOT_COUNT + 2 * MaxSockets bots).
C22_BotAutoRespawn ==
    /\ []DeadBotHasOneTimer
    /\ [][BotDeathSchedules /\ RespawnCallbackFrame]_vars
    /\ \A n \in 0..(BOT_COUNT + 2 * MaxSockets - 1) :
          []<>(~DeadBotWaiting(BotId(n)))

\* a bot died, was removed from the registry before its respawn callback
\* ran, and the callback is now due
C22_Witness ==
    \E i \in 1..Len(timers) :
      /\ timers[i].kind = "botRespawn"
      /\ Expired(timers[i])
      /\ ~HasPlayer(World, timers[i].pId)

\* the magnet-expiry callbacks pending for the worm that fall due no earlier
\* than the given time
MagnetTimersFrom(pId, due) ==
    {j \in 1..Len(timers) : /\ timers[j].kind = "magnetExpiry"
                            /\ timers[j].pId = pId
                            /\ timers[j].due >= due}

\* the i-th pending callback is a magnet expiry from an earlier life of the
\* worm, or of a worm that was removed.  Every magnet pickup of the current
\* life has added FOOD_SCORE to the score, which a life starts at 0: when
\* the score is below FOOD_SCORE times the callbacks pending from this one
\* on, this one was scheduled before the latest respawn.
StaleMagnetTimer(i) ==
    /\ timers[i].kind = "magnetExpiry"
    /\ \/ ~HasPlayer(World, timers[i].pId)
       \/ Player(World, timers[i].pId).worm.score
             < FOOD_SCORE * Cardinality(MagnetTimersFrom(timers[i].pId, timers[i].due))

\* C23: a stale magnet-expiry callback is a no-op: scheduled in one life of
\* a worm, it changes neither the magnet flag nor anything else of the worm
\* once that worm has died and been respawned, and nothing of the registry
\* once the worm was removed.
C23_StaleMagnetExpiryNoOp ==
    [][\A i \in 1..Len(timers) :
          (FireTimer(i) /\ StaleMagnetTimer(i)) =>
             /\ timers' = RemoveAt(timers, i)
             /\ UNCHANGED <<players, food, eatenFoodThisTick, nextFoodId,
                            nextBotId, sockets, sent, log, broadcast, now>>]_vars

\* a worm that eats magnet food in a tick and lives through it has its
\* magnet flag set after the tick
MagnetSetOnPickup ==
    IsTick =>
      \A k \in 1..Len(eatenFoodThisTick') :
        LET e == eatenFoodThisTick'[k]
        IN  (/\ e.type = FOOD_TYPE_MAGNET
             /\ HasPlayer(World', e.eaterId)
             /\ Player(World', e.eaterId).worm.isAlive)
            => Player(World', e.eaterId).worm.isMagnetActive

\* the magnet flag of a living worm is not cleared while a magnet pickup of
\* the worm is younger than POWER_UP_DURATION_MS.  (A flag that is set was
\* set by the worm's latest pickup, whose callback is the last of the
\* worm's callbacks to fall due: when the flag is cleared with a callback
\* still to come, the latest pickup has not had its duration.)
MagnetKept ==
    \A i \in 1..Len(players) :
      LET p == players[i]
      IN  (/\ p.worm.isAlive
           /\ p.worm.isMagnetActive
           /\ HasPlayer(World', p.id)
           /\ Player(World', p.id).worm.isAlive
           /\ ~Player(World', p.id).worm.isMagnetActive)
          => ~\E j \in 1..Len(timers') :
                /\ timers'[j].kind = "magnetExpiry"
                /\ timers'[j].pId = p.id
                /\ timers'[j].due > now'

\* C24: a living worm that eats magnet food has its magnet flag set in that
\* tick, and the flag stays set for the full POWER_UP_DURATION_MS counted
\* from that pickup, also when the callback of an earlier pickup is still
\* pending.
C24_MagnetFullDuration == [][MagnetSetOnPickup /\ MagnetKept]_vars

\* C25: a fault raised by a phase of a tick is caught at the tick boundary
\* and the loop keeps running: the process does not stop ticking.
C25_FailForward == running

\* the snapshot shows the worms of the registry as the collision phase left
\* them: the same entries, and no living worm beyond the world boundary
ShowsSettledRegistry(g, w) ==
    /\ Len(g.worms) = Len(w.players)
    /\ \A k \in 1..Len(g.worms) :
          /\ g.worms[k].id = w.players[k].id
          /\ g.worms[k].name = w.players[k].name
          /\ g.worms[k].segments = w.players[k].worm.segments
          /\ g.worms[k].score = w.players[k].worm.score
          /\ g.worms[k].isGameOver = ~w.players[k].worm.isAlive
          /\ ~g.worms[k].isGameOver => ~OutsideWorld(g.worms[k].segments[1])
    /\ g.food = w.food
    /\ g.eatenFood = w.eatenFoodThisTick

\* a tick handles no connection event and runs no timer callback: the
\* sockets, the worms' names and desired human headings, and the pending
\* callbacks are as before it (callbacks are only added), every worm of a
\* connected human is still in the registry, and its one snapshot shows
\* the registry it leaves.  A step that is not a tick emits no snapshot.
TickAtomic ==
    IF IsTick
    THEN /\ UNCHANGED <<sockets, nextSocketId, acted>>
         /\ Len(timers') >= Len(timers)
         /\ SubSeq(timers', 1, Len(timers)) = timers
         /\ \A i \in 1..Len(players) :
               ~players[i].isBot =>
                  /\ HasPlayer(World', players[i].id)
                  /\ Player(World', players[i].id).name = players[i].name
                  /\ Player(World', players[i].id).worm.targetAngle =
                        players[i].worm.targetAngle
         /\ Len(broadcast') = 1
         /\ ShowsSettledRegistry(broadcast'[1], World')
    ELSE /\ now' = now
         /\ broadcast' = broadcast

\* C26: connection events and deferred timer callbacks are applied only
\* between ticks, never between two phases of one tick, so every snapshot
\* that is broadcast shows the registry as it is after a complete collision
\* phase.
C26_TickAtomicity == [][TickAtomic]_vars

\* a tick has ended with a callback due at its time still waiting, after a
\* client's message was handled before it; its snapshot shows the registry
C26_Witness ==
    /\ acted = 1
    /\ now >= 1
    /\ \E i \in 1..Len(timers) : Expired(timers[i])
    /\ Len(broadcast) = 1
    /\ ShowsSettledRegistry(broadcast[1], World)
    /\ \E i \in 1..Len(players) : ~players[i].isBot

\* the worm as the respawn routine leaves it
Initialized(player) ==
    /\ player.worm.isAlive
    /\ player.worm.score = 0
    /\ Len(player.worm.segments) = WORM_INITIAL_LENGTH
    /\ ~player.worm.hasSpeedBoost
    /\ ~player.worm.isMagnetActive
    /\ player.worm.targetAngle = player.worm.angle
    /\ player.isBot =>
          /\ player.worm.botState.targetFoodId = Null
          /\ player.worm.botState.ticksUntilTargetUpdate = 0

\* resetPlayer of any entry of the registry, and addBot, in the state
ResetInitializes ==
    /\ \A i \in 1..Len(players) :
          \A w \in resetPlayer(World, players[i].id) :
             /\ Initialized(Player(w, players[i].id))
             /\ \A k \in 1..Len(players) : k # i => w.players[k] = players[k]
    /\ \A w \in addBot(World) :
          /\ Len(w.players) = Len(players) + 1
          /\ w.players[Len(w.players)].isBot
          /\ Initialized(w.players[Len(w.players)])

\* a worm that is alive before and after a step has its score raised by a
\* multiple of FOOD_SCORE or left alone; the worm of a new connection, of a
\* human's respawn request and of a bot's respawn callback is initialized
ScoreSteps ==
    /\ \A i \in 1..Len(players) :
          (/\ players[i].worm.isAlive
           /\ HasPlayer(World', players[i].id)
           /\ Player(World', players[i].id).worm.isAlive)
          => LET gain == Player(World', players[i].id).worm.score
                           - players[i].worm.score
             IN  gain >= 0 /\ gain % FOOD_SCORE = 0
    /\ \A k \in 1..Len(players') :
          (~IsTick /\ \/ ~HasPlayer(World, players'[k].id)
                      \/ /\ ~Player(World, players'[k].id).worm.isAlive
                         /\ players'[k].worm.isAlive)
          => Initialized(players'[k])

\* C27: while a worm stays alive its score never decreases and changes only
\* in steps of FOOD_SCORE; every initialization through resetPlayer
\* (connect, bot add, respawn request, bot respawn callback) leaves the
\* worm alive with score 0, WORM_INITIAL_LENGTH segments, speed boost and
\* magnet inactive, desired heading equal to heading and, for a bot, no
\* food target.
C27_ScoreAndRespawn == []ResetInitializes /\ [][ScoreSteps]_vars

\* a worm has scored twice in its life, and a human whose worm died in
\* the latest tick has asked for a respawn and has an initialized worm
C27_Witness ==
    /\ \E i \in 1..Len(players) :
          /\ players[i].worm.isAlive
          /\ players[i].worm.score = 2 * FOOD_SCORE
    /\ \E i \in 1..Len(players) :
          /\ ~players[i].isBot
          /\ DeathsOf(log, players[i].id) = 1
          /\ Initialized(players[i])

\* a worm that is dead before and after a step is as it was: segments,
\* heading, desired heading, score and bot state; a tick logs no death of
\* it, records no food eaten by it and schedules no respawn of it
DeadFrozen ==
    \A i \in 1..Len(players) :
      LET p == players[i]
      IN  (/\ ~p.worm.isAlive
           /\ HasPlayer(World', p.id)
           /\ ~Player(World', p.id).worm.isAlive)
          => LET q == Player(World', p.id).worm
             IN  /\ q.segments = p.worm.segments
                 /\ q.angle = p.worm.angle
                 /\ q.targetAngle = p.worm.targetAngle
                 /\ q.score = p.worm.score
                 /\ q.botState = p.worm.botState
                 /\ IsTick =>
                       /\ DeathsOf(log', p.id) = 0
                       /\ EatenBy(eatenFoodThisTick', p.id) = 0
                       /\ RespawnTimersOf(timers', p.id)
                             = RespawnTimersOf(timers, p.id)

\* all the segments of the living worms of a world, in one list
RECURSIVE LivingSegments(_, _)
LivingSegments(w, i) ==
    IF i > Len(w.players) THEN <<>>
    ELSE (IF w.players[i].worm.isAlive THEN w.players[i].worm.segments ELSE <<>>)
         \o LivingSegments(w, i + 1)

\* the world with the body of every dead worm laid over the living worms
Overlaid(w) ==
    [w EXCEPT !.players =
        [i \in 1..Len(w.players) |->
            IF w.players[i].worm.isAlive THEN w.players[i]
            ELSE [w.players[i] EXCEPT !.worm.segments = LivingSegments(w, 1)]]]

\* what a tick that starts in world `start` leaves, the bodies of the worms
\* that were dead in `from` taken as in `from`, and the snapshot left out
TickOutcomes(start, from, t) ==
    {[w EXCEPT
        !.broadcast = <<>>,
        !.players =
            [k \in 1..Len(w.players) |->
                IF /\ HasPlayer(from, w.players[k].id)
                   /\ ~Player(from, w.players[k].id).worm.isAlive
                THEN [w.players[k] EXCEPT
                        !.worm.segments =
                            Player(from, w.players[k].id).worm.segments]
                ELSE w.players[k]]] :
       w \in gameLoop(start, t)}

\* a tick does to the living worms, the food and the timers what it would
\* do if the dead worms lay on top of the living ones: no dead worm is a
\* collision source, an avoidance threat or an obstacle
DeadIgnored ==
    LET start == [World EXCEPT !.sent = <<>>, !.log = <<>>, !.broadcast = <<>>]
    IN  TickOutcomes(Overlaid(start), start, now + 1)
          = TickOutcomes(start, start, now + 1)

\* C28: a dead worm is excluded from every pass until it is respawned: its
\* segments, heading and score do not change, it is not moved, runs no bot
\* AI, eats no food, is not killed again, and is never a collision source
\* or a bot-avoidance threat for another worm.
C28_DeadWormExcluded == []DeadIgnored /\ [][DeadFrozen]_vars

\* a worm that died in an earlier tick has stayed dead through the latest
\* tick, in which a living worm ended with its head on the dead body
C28_Witness ==
    /\ now >= 2
    /\ Len(broadcast) = 1
    /\ \E i, j \in 1..Len(players) :
          /\ ~players[i].worm.isAlive
          /\ DeathsOf(log, players[i].id) = 0
          /\ players[j].worm.isAlive
          /\ \E k \in 1..Len(players[i].worm.segments) :
                DistSq(players[j].worm.segments[1],
                       players[i].worm.segments[k]) = 0

\* every alive worm has at least WORM_INITIAL_LENGTH segments, the first
\* of them its head, and keeps as many after the tail trimming, whether it
\* ate or not
MinimumLength ==
    \A i \in 1..Len(players) :
      players[i].worm.isAlive =>
        /\ Len(players[i].worm.segments) >= WORM_INITIAL_LENGTH
        /\ 1 \in DOMAIN players[i].worm.segments
        /\ \A ate \in BOOLEAN :
              LET trimmed == Player(TrimTail(World, players[i].id, ate),
                                    players[i].id).worm
              IN  /\ Len(trimmed.segments) >= WORM_INITIAL_LENGTH
                  /\ trimmed.segments[1] = players[i].worm.segments[1]

\* a tick leaves a worm that lives through it with as many segments as it
\* had, or one more, its new head first and its old segments behind it
TickKeepsLength ==
    IsTick =>
      \A i \in 1..Len(players) :
        LET p == players[i]
        IN  (/\ p.worm.isAlive
             /\ HasPlayer(World', p.id)
             /\ Player(World', p.id).worm.isAlive)
            => LET q == Player(World', p.id).worm
               IN  /\ Len(q.segments) \in {Len(p.worm.segments),
                                            Len(p.worm.segments) + 1}
                   /\ SubSeq(q.segments, 2, Len(q.segments))
                         = SubSeq(p.worm.segments, 1, Len(q.segments) - 1)

\* C29: at every tick boundary every alive worm has at least
\* WORM_INITIAL_LENGTH segments, with a head at index 0, and tail trimming
\* never takes the segment count of an alive worm below that minimum.
C29_MinimumLength == []MinimumLength /\ [][TickKeepsLength]_vars

\* after a tick, a worm that has never eaten lives with exactly
\* WORM_INITIAL_LENGTH segments (its tail was trimmed) next to a worm that
\* has eaten and is longer
C29_Witness ==
    /\ now >= 2
    /\ Len(broadcast) = 1
    /\ \E i, j \in 1..Len(players) :
          /\ players[i].worm.isAlive
          /\ players[i].worm.score = 0
          /\ Len(players[i].worm.segments) = WORM_INITIAL_LENGTH
          /\ players[j].worm.isAlive
          /\ players[j].worm.score > 0
          /\ Len(players[j].worm.segments) > WORM_INITIAL_LENGTH

\* the ids listed in an eaten-food list
EatenIds(eaten) == {eaten[k].id : k \in 1..Len(eaten)}

\* the eaten-food list a tick leaves lists, once each, the items that were
\* in the food list or were created in the tick and are no longer in the
\* list: none of an earlier tick; each entry has the type the item had and
\* the id of a worm of the registry as eater; the snapshot of the tick
\* carries that list, and none of its ids is in the snapshot's food list
EatenFoodOfTick ==
    IsTick =>
      LET eaten == eatenFoodThisTick'
          snapshot == broadcast'[Len(broadcast')]
      IN  /\ EatenIds(eaten)
                = (FoodIds(food) \cup (nextFoodId..(nextFoodId' - 1)))
                     \ FoodIds(food')
          /\ Cardinality(EatenIds(eaten)) = Len(eaten)
          /\ EatenIds(eaten) \cap EatenIds(eatenFoodThisTick) = {}
          /\ \A k \in 1..Len(eaten) :
                /\ \E i \in 1..Len(players') :
                      players'[i].id = eaten[k].eaterId
                /\ \A j \in 1..Len(food) :
                      food[j].id = eaten[k].id => food[j].type = eaten[k].type
          /\ Len(broadcast') = 1
          /\ snapshot.eatenFood = eaten
          /\ snapshot.food = food'
          /\ EatenIds(snapshot.eatenFood) \cap FoodIds(snapshot.food) = {}

\* whatever the eaten-food list holds, the collision phase starts from an
\* empty one: it leaves what it would leave with the list empty
ClearedAtStart ==
    checkCollisions(World, now + 1)
      = checkCollisions([World EXCEPT !.eatenFoodThisTick = <<>>], now + 1)

\* C30: the eaten-food list is cleared at the start of every collision
\* phase, so the eatenFood of each snapshot holds exactly the items consumed
\* in that tick, one entry per item with the eater's id and the item's type,
\* none carried over, and no id of eatenFood is in the snapshot's food list.
C30_EatenFoodPerTick == []ClearedAtStart /\ [][EatenFoodOfTick]_vars

\* the second tick has ended; a worm that ate one item in the first tick
\* ate one more in the second, and the snapshot lists that one alone
C30_Witness ==
    /\ now = 2
    /\ Len(broadcast) = 1
    /\ Len(eatenFoodThisTick) = 1
    /\ broadcast[1].eatenFood = eatenFoodThisTick
    /\ \E i \in 1..Len(players) :
          /\ players[i].id = eatenFoodThisTick[1].eaterId
          /\ players[i].worm.score = 2 * FOOD_SCORE

\* the ids of the humans of a world, and the number of its bots
HumanIds(w) == {w.players[i].id : i \in {k \in 1..Len(w.players) : ~w.players[k].isBot}}

BotCount(w) == Len(BotIds(w))

\* max(BOT_COUNT, 2 x human count)
BotTarget(w) == Max(BOT_COUNT, 2 * Cardinality(HumanIds(w)))

\* a tick adds exactly one bot, the one of the next bot id, when the bots
\* are fewer than the target, removes exactly one bot when they are more,
\* and adds and removes none when they are as many; it removes no human
ReconcileByOne ==
    IsTick =>
      LET before == Range(BotIds(World))
          after == Range(BotIds(World'))
      IN  /\ HumanIds(World') = HumanIds(World)
          /\ BotCount(World) < BotTarget(World) =>
                after = before \cup {BotId(nextBotId)}
          /\ BotCount(World) > BotTarget(World) =>
                /\ after \subseteq before
                /\ Cardinality(before \ after) = 1
          /\ BotCount(World) = BotTarget(World) => after = before

\* once the bots are as many as the target, they stay so over every step
\* that leaves the number of humans as it is; no step but a tick changes
\* the bots of the registry
TargetKept ==
    /\ ~IsTick => BotIds(World') = BotIds(World)
    /\ (/\ BotCount(World) = BotTarget(World)
        /\ Cardinality(HumanIds(World')) = Cardinality(HumanIds(World)))
       => BotCount(World') = BotTarget(World')

LookAheadOf(worm) ==
    [x |-> worm.segments[1].x + Cos(worm.angle) * BOT_AVOIDANCE_DISTANCE,
     y |-> worm.segments[1].y + Sin(worm.angle) * BOT_AVOIDANCE_DISTANCE]

NearEdge(point) ==
    \/ point.x < BOT_BOUNDARY_AVOID_MARGIN
    \/ point.x > WORLD_WIDTH - BOT_BOUNDARY_AVOID_MARGIN
    \/ point.y < BOT_BOUNDARY_AVOID_MARGIN
    \/ point.y > WORLD_HEIGHT - BOT_BOUNDARY_AVOID_MARGIN

\* the scanned segments of the i-th worm of w that lie near the point
NearSegments(w, i, point) ==
    {k \in 1..Min(Len(w.players[i].worm.segments), BotScanSegments) :
        DistSq(point, w.players[i].worm.segments[k])
           < (WORM_SEGMENT_RADIUS * 2) * (WORM_SEGMENT_RADIUS * 2)}

\* the other living worms of w that threaten the bot at the point
ThreatsTo(w, botId, point) ==
    {i \in 1..Len(w.players) :
        /\ w.players[i].id # botId
        /\ w.players[i].worm.isAlive
        /\ NearSegments(w, i, point) # {}}

\* the two headings perpendicular to the bearing of a segment from a head
AwayFrom(head, seg) ==
    {NormalizeAngle(Atan2(seg.y - head.y, seg.x - head.x) + (PI \div 2) * side) :
       side \in {1, -1}}

\* one AI update of a living bot of world w that leaves world `after`
PriorityKept(w, botId, after) ==
    LET worm == Player(w, botId).worm
        head == worm.segments[1]
        point == LookAheadOf(worm)
        threats == ThreatsTo(w, botId, point)
        first == CHOOSE i \in threats : \A i2 \in threats : i <= i2
        seg == w.players[first].worm.segments[
                   CHOOSE k \in NearSegments(w, first, point) :
                      \A k2 \in NearSegments(w, first, point) : k <= k2]
        then == Player(after, botId).worm
        avoided == /\ then.botState.targetFoodId = Null
                   /\ then.botState.ticksUntilTargetUpdate
                         = BOT_TARGET_UPDATE_INTERVAL_TICKS
    IN  /\ NearEdge(point) =>
              /\ then.targetAngle =
                    NormalizeAngle(Atan2(WORLD_HEIGHT - 2 * head.y,
                                         WORLD_WIDTH - 2 * head.x))
              /\ avoided
        /\ (~NearEdge(point) /\ threats # {}) =>
              /\ then.targetAngle \in AwayFrom(head, seg)
              /\ avoided
        /\ (~NearEdge(point) /\ threats = {}) =>
              /\ then.botState.ticksUntilTargetUpdate \in
                    {worm.botState.ticksUntilTargetUpdate - 1,
                     BOT_TARGET_UPDATE_INTERVAL_TICKS, 0}
              /\ then.botState.ticksUntilTargetUpdate
                    = worm.botState.ticksUntilTargetUpdate - 1
                 => then.botState.targetFoodId = worm.botState.targetFoodId
              /\ then.botState.targetFoodId # Null =>
                    /\ FindFood(w, then.botState.targetFoodId) # {}
                    /\ \E j \in FindFood(w, then.botState.targetFoodId) :
                          then.targetAngle =
                             NormalizeAngle(Atan2(w.food[j].y - head.y,
                                                  w.food[j].x - head.x))
        /\ [then EXCEPT !.targetAngle = worm.targetAngle,
                        !.botState = worm.botState] = worm
        /\ [after EXCEPT !.players = w.players, !.rnd = w.rnd] = w

\* a living bot with its look-ahead point clear of the edges and another
\* living worm near that point
Threatened(w, i) ==
    /\ w.players[i].isBot
    /\ w.players[i].worm.isAlive
    /\ ~NearEdge(LookAheadOf(w.players[i].worm))
    /\ ThreatsTo(w, w.players[i].id, LookAheadOf(w.players[i].worm)) # {}

\* C32: in one AI update of a living bot, boundary avoidance takes
\* precedence over threat avoidance, which takes precedence over food
\* seeking: near a boundary the bot steers to the centre whatever the other
\* worms; otherwise it steers away from the first threatening worm; the
\* countdown runs and food is targeted only when nothing is avoided, and
\* whenever something is avoided the food target is cleared.
C32_BotPriority ==
    \A w \in ReconcileBots(World) : \A i \in 1..Len(w.players) :
      (w.players[i].isBot /\ w.players[i].worm.isAlive) =>
        \A after \in updateBotAI(w, w.players[i].id) :
          PriorityKept(w, w.players[i].id, after)

\* a living bot that has a food target is threatened by another worm away
\* from the edges, and another living bot looks ahead to a point near an
\* edge that is also near another living worm
C32_Witness ==
    /\ \E i \in 1..Len(players) :
          /\ Threatened(World, i)
          /\ players[i].worm.botState.targetFoodId # Null
    /\ \E i \in 1..Len(players) :
          /\ players[i].isBot
          /\ players[i].worm.isAlive
          /\ NearEdge(LookAheadOf(players[i].worm))
          /\ ThreatsTo(World, players[i].id, LookAheadOf(players[i].worm)) # {}

\* a living bot of w whose update takes the food-seeking branch
SeeksFood(w, i) ==
    /\ w.players[i].isBot
    /\ w.players[i].worm.isAlive
    /\ ~NearEdge(LookAheadOf(w.players[i].worm))
    /\ ThreatsTo(w, w.players[i].id, LookAheadOf(w.players[i].worm)) = {}

\* the stored food target of the worm is no item of the food list
StaleTarget(w, worm) ==
    /\ worm.botState.targetFoodId # Null
    /\ worm.botState.targetFoodId \notin FoodIds(w.food)

\* a food-seeking update of the i-th worm of w that leaves world `after`:
\* the target is null only if there is no food, else it is the id of an
\* item of the list, a nearest one to the head if the countdown ran out or
\* the stored target was no longer in the list
TargetValid(w, i, after) ==
    LET worm == w.players[i].worm
        head == worm.segments[1]
        target == Player(after, w.players[i].id).worm.botState.targetFoodId
        rescan == \/ worm.botState.ticksUntilTargetUpdate - 1 <= 0
                  \/ worm.botState.targetFoodId \notin FoodIds(w.food)
    IN  /\ after.food = w.food
        /\ target = Null => Len(w.food) = 0
        /\ target # Null =>
              \E j \in 1..Len(w.food) :
                 /\ w.food[j].id = target
                 /\ rescan => \A j2 \in 1..Len(w.food) :
                                 DistSq(head, w.food[j]) <= DistSq(head, w.food[j2])
        /\ ~rescan => target = worm.botState.targetFoodId

\* every AI update of a living bot has an outcome, whatever its stored
\* target, and a food-seeking one leaves a valid target
TargetsValid ==
    \A w \in ReconcileBots(World) : \A i \in 1..Len(w.players) :
      (w.players[i].isBot /\ w.players[i].worm.isAlive) =>
        /\ updateBotAI(w, w.players[i].id) # {}
        /\ SeeksFood(w, i) =>
              \A after \in updateBotAI(w, w.players[i].id) :
                 TargetValid(w, i, after)

\* after a tick no bot has as its target an item it ate in that tick
EatenTargetCleared ==
    IsTick =>
      \A i \in 1..Len(players') : \A k \in 1..Len(eatenFoodThisTick') :
        (players'[i].isBot /\ eatenFoodThisTick'[k].eaterId = players'[i].id)
          => players'[i].worm.botState.targetFoodId # eatenFoodThisTick'[k].id

\* C33: a bot's stored food target that no longer exists never causes a
\* fault; when the bot itself eats its target the target is cleared in that
\* tick; after every AI update that takes the food-seeking branch the
\* target is the id of an item of the food list, the nearest to the head by
\* squared distance whenever a rescan happened, or null, and null only if
\* the food list is empty.
C33_BotTargetValid == []TargetsValid /\ [][EatenTargetCleared]_vars

\* a living bot about to seek food holds a target that another worm ate in
\* the latest tick
C33_Witness ==
    /\ Len(broadcast) = 1
    /\ \E i \in 1..Len(players) : \E k \in 1..Len(eatenFoodThisTick) :
          /\ SeeksFood(World, i)
          /\ StaleTarget(World, players[i].worm)
          /\ eatenFoodThisTick[k].id = players[i].worm.botState.targetFoodId
          /\ eatenFoodThisTick[k].eaterId # players[i].id

\* the normal pickup distance, and the distances probed
NormalPickupDistance == WORM_SEGMENT_RADIUS + FOOD_RADIUS

ProbedDistances == 0..(MAGNET_RADIUS_MULTIPLIER * NormalPickupDistance + 1)

\* the food loop of the i-th worm, run on the world with a single item of
\* food at distance d from the worm's head, consumes the item
ConsumesAt(i, d) ==
    LET head == players[i].worm.segments[1]
        item == [id |-> nextFoodId, x |-> head.x + d, y |-> head.y,
                 z |-> WORLD_GROUND_Z, color |-> 1, radius |-> FOOD_RADIUS,
                 type |-> 1]
        probe == [World EXCEPT !.food = <<item>>, !.nextFoodId = @ + 1]
    IN  \A r \in FoodScan(probe, players[i].id, head, 1, FALSE, now + 1) :
           /\ r.ate
           /\ item.id \notin FoodIds(r.w.food)

\* C34: for a worm with magnet active, the distance within which food is
\* consumed equals MAGNET_RADIUS_MULTIPLIER times the normal pickup
\* distance (WORM_SEGMENT_RADIUS + FOOD_RADIUS); for a worm without magnet
\* it is the normal pickup distance.
C34_MagnetPickupRadius ==
    \A i \in 1..Len(players) : \A d \in ProbedDistances :
      players[i].worm.isAlive =>
        (ConsumesAt(i, d) <=>
           d < (IF players[i].worm.isMagnetActive
                THEN MAGNET_RADIUS_MULTIPLIER * NormalPickupDistance
                ELSE NormalPickupDistance))

\* what the food loop does: the magnet multiplies the food radius alone
C34_MagnetMultipliesFoodRadius ==
    \A i \in 1..Len(players) : \A d \in ProbedDistances :
      players[i].worm.isAlive =>
        (ConsumesAt(i, d) <=>
           d < (IF players[i].worm.isMagnetActive
                THEN WORM_SEGMENT_RADIUS + FOOD_RADIUS * MAGNET_RADIUS_MULTIPLIER
                ELSE NormalPickupDistance))

\* the snapshot g has one worm per entry of the registry of w and no other,
\* with isGameOver true exactly for the worms that are not alive, and one
\* food element per item of the food list, with the item's fields
SnapshotOf(g, w) ==
    /\ {g.worms[k].id : k \in 1..Len(g.worms)} = PlayerIds(w)
    /\ Len(g.worms) = Cardinality(PlayerIds(w))
    /\ \A k \in 1..Len(g.worms) :
          g.worms[k].isGameOver = ~Player(w, g.worms[k].id).worm.isAlive
    /\ Len(g.food) = Len(w.food)
    /\ \A j \in 1..Len(w.food) :
          /\ g.food[j].id = w.food[j].id
          /\ g.food[j].x = w.food[j].x
          /\ g.food[j].y = w.food[j].y
          /\ g.food[j].type = w.food[j].type

\* the snapshot of the state is a snapshot of its registry, and emitting it
\* changes nothing but the list of emitted snapshots
SnapshotReadsOnly ==
    /\ SnapshotOf(prepareGameState(World), World)
    /\ [EmitGameState(World) EXCEPT !.broadcast = broadcast] = World
    /\ EmitGameState(World).broadcast
          = Append(broadcast, prepareGameState(World))

\* the snapshot a tick emits is a snapshot of the registry the tick leaves
TickSnapshot ==
    IsTick => /\ Len(broadcast') = 1
              /\ SnapshotOf(broadcast'[1], World')
              /\ broadcast'[1] = prepareGameState(World')

\* C35: the worms map of every snapshot has exactly the ids present in the
\* registry at the end of that tick, dead worms included, with isGameOver
\* true exactly for the worms that are not alive, and the food array has
\* exactly the items of the food list; assembling the snapshot does not
\* change the registry.
C35_SnapshotContents == []SnapshotReadsOnly /\ [][TickSnapshot]_vars

\* the snapshot of the latest tick shows a dead worm as game over next to a
\* living one, and some food
C35_Witness ==
    /\ Len(broadcast) = 1
    /\ Len(broadcast[1].food) >= 1
    /\ \E k, k2 \in 1..Len(broadcast[1].worms) :
          /\ broadcast[1].worms[k].isGameOver
          /\ ~Player(World, broadcast[1].worms[k].id).worm.isAlive
          /\ ~broadcast[1].worms[k2].isGameOver
          /\ Player(World, broadcast[1].worms[k2].id).worm.isAlive

\* no step makes the food list shorter
FoodNeverFewer == Len(food') >= Len(food)

\* the food list holds at least the items of the initial spawn
FoodFloor == Len(food) >= (MAX_FOOD + 1) \div 2

\* C36: the number of food items in the world never decreases: over any
\* sequence of ticks, consumptions, deaths, respawns, connects and
\* disconnects the food count after each step is at least the food count
\* before it, so it never falls below the count reached by the initial spawn.
C36_FoodNeverDecreases == []FoodFloor /\ [][FoodNeverFewer]_vars

\* a human has connected, a worm has died and left food, and in the latest
\* tick a worm ate: the food list is longer than at the start
C36_Witness ==
    /\ nextSocketId >= 1
    /\ now >= 2
    /\ Len(broadcast) = 1
    /\ Len(eatenFoodThisTick) >= 1
    /\ Len(food) > (MAX_FOOD + 1) \div 2
    /\ \E i \in 1..Len(players) : ~players[i].worm.isAlive

\* the bots are at least BOT_COUNT, each under an id of its own that
\* nextBotId has passed
BotsKept ==
    /\ BotCount(World) >= BOT_COUNT
    /\ Cardinality(Range(BotIds(World))) = BotCount(World)
    /\ \A id \in Range(BotIds(World)) : \E n \in 0..(nextBotId - 1) : id = BotId(n)

\* a step changes the number of bots by one at most; nextBotId never goes
\* back, and a bot that joins the registry has an id nextBotId had not
\* reached, so no id of an earlier bot
BotIdsFresh ==
    /\ BotCount(World') - BotCount(World) \in {-1, 0, 1}
    /\ nextBotId' >= nextBotId
    /\ \A id \in Range(BotIds(World')) \ Range(BotIds(World)) :
          \E n \in nextBotId..(nextBotId' - 1) : id = BotId(n)

\* C37: after startup the number of bots in the registry is never below
\* BOT_COUNT, whatever the humans' connects and disconnects, and it changes
\* by at most one per tick; bot ids are never reused, so a removed bot's id
\* never refers to a later bot.
C37_BotFloorAndIds == []BotsKept /\ [][BotIdsFresh]_vars

\* a human came and left; the younger of the two bots has been removed, and
\* BOT_COUNT bots are left
C37_Witness ==
    /\ nextBotId = BOT_COUNT + 1
    /\ nextSocketId >= 1
    /\ HumanIds(World) = {}
    /\ BotId(BOT_COUNT) \notin Range(BotIds(World))
    /\ BotCount(World) = BOT_COUNT

\* FOOD_SCORE for every segment beyond WORM_INITIAL_LENGTH
LengthWorth(worm) == FOOD_SCORE * (Len(worm.segments) - WORM_INITIAL_LENGTH)

\* the score of every worm, alive or dead, is at least the worth of its
\* length
ScoreCoversLength ==
    \A i \in 1..Len(players) :
      players[i].worm.score >= LengthWorth(players[i].worm)

\* over a step, a worm that was alive gains in score at least the worth of
\* the segments it gains, and exactly that if its magnet is inactive before
\* and after the step (it is switched on by eating and off by a callback
\* only, never within one tick); a worm that starts a life, by respawn or as
\* a new entry of the registry, has a score equal to the worth of its
\* length unless its magnet is already active
GrowthPaid ==
    \A i \in 1..Len(players') :
      LET q == players'[i].worm
      IN  IF HasPlayer(World, players'[i].id)
                /\ Player(World, players'[i].id).worm.isAlive
          THEN LET p == Player(World, players'[i].id).worm
               IN  /\ q.score - p.score >= LengthWorth(q) - LengthWorth(p)
                   /\ (~p.isMagnetActive /\ ~q.isMagnetActive) =>
                         q.score - p.score = LengthWorth(q) - LengthWorth(p)
          ELSE (q.isAlive /\ ~q.isMagnetActive) => q.score = LengthWorth(q)

\* C38: at every tick boundary every worm satisfies
\* score >= FOOD_SCORE x (segment count - WORM_INITIAL_LENGTH), with equality
\* for a worm whose magnet has never been active in its current life.
C38_ScoreLength == []ScoreCoversLength /\ [][GrowthPaid]_vars

\* a worm with the magnet on has eaten two items in one tick and grown by
\* one segment, next to a worm that has eaten and whose score is the worth
\* of its length
C38_Witness ==
    /\ Len(broadcast) = 1
    /\ \E i, j \in 1..Len(players) :
          /\ players[i].worm.isMagnetActive
          /\ EatenBy(eatenFoodThisTick, players[i].id) >= 2
          /\ players[i].worm.score > LengthWorth(players[i].worm)
          /\ ~players[j].worm.isMagnetActive
          /\ players[j].worm.score > 0
          /\ players[j].worm.score = LengthWorth(players[j].worm)

\* the worm went through the collision phase of the tick that led to the
\* state: it is alive, or it died in that tick
TookPartIn(player, deaths) ==
    player.worm.isAlive \/ DeathsOf(deaths, player.id) > 0

\* the i-th and the j-th worm of the registry, as the collision phase saw
\* them, have each the head on the other's body, and neither is outside the
\* world, on its own body or on the body of a third worm of the phase
MutualCollision(ps, deaths, i, j) ==
    LET a == ps[i].worm
        b == ps[j].worm
    IN  /\ TookPartIn(ps[i], deaths) /\ TookPartIn(ps[j], deaths)
        /\ HitsOther(a.segments[1], b) /\ HitsOther(b.segments[1], a)
        /\ ~OutsideWorld(a.segments[1]) /\ ~OutsideWorld(b.segments[1])
        /\ ~HitsSelf(a) /\ ~HitsSelf(b)
        /\ \A k \in 1..Len(ps) :
              (k \notin {i, j} /\ TookPartIn(ps[k], deaths)) =>
                 /\ ~HitsOther(a.segments[1], ps[k].worm)
                 /\ ~HitsOther(b.segments[1], ps[k].worm)

\* the first of the two died once in the tick, of the collision with the
\* second, and the second lives
FirstDied(ps, deaths, i, j) ==
    /\ ~ps[i].worm.isAlive
    /\ DeathsOf(deaths, ps[i].id) = 1
    /\ \E n \in 1..Len(deaths) :
          /\ deaths[n].id = ps[i].id
          /\ deaths[n].reason = <<"collided with", ps[j].name>>
    /\ ps[j].worm.isAlive
    /\ DeathsOf(deaths, ps[j].id) = 0

\* a tick in which two worms collide with each other kills the one that
\* comes first in the registry, and so in the living list, and no other
\* (the segments a tick leaves are those its collision phase compared)
MutualByOrder ==
    IsTick =>
      \A i, j \in 1..Len(players') :
        (i < j /\ MutualCollision(players', log', i, j))
          => FirstDied(players', log', i, j)

\* C39: when in one tick two living worms each have their head within the
\* collision radius of a segment of the other, and neither hits the
\* boundary, itself or a third worm, exactly one of them dies in that tick,
\* the one that comes first in the start-of-phase living list, and the
\* other survives the tick.
C39_MutualCollisionOrder == [][MutualByOrder]_vars

\* the latest tick ended with two worms on each other; the first is dead
\* and the second alive
C39_Witness ==
    /\ Len(broadcast) = 1
    /\ \E i, j \in 1..Len(players) :
          /\ i < j
          /\ MutualCollision(players, log, i, j)
          /\ FirstDied(players, log, i, j)

====
